---- MODULE Spec2Model ----
(***************************************************************************)
(* Model of the services marketplace back end: the Service and Review      *)
(* collections, the review and service controllers and the statistics      *)
(* helper updateServiceStats.  Every request handler is an async function: *)
(* it runs without preemption between two awaits, and each awaited         *)
(* database operation is one atomic step.  req[p].pc names the database    *)
(* operation request p has issued and is waiting for.                      *)
(***************************************************************************)
EXTENDS Integers, Sequences, FiniteSets, TLC

VARIABLES
    services,    \* Service collection: service id -> document
    reviewsDb,   \* Review collection: set of documents
    nextSid,     \* next fresh Service _id
    nextRid,     \* next fresh Review _id
    req,         \* request slot -> the request in flight in it
    arrived,     \* number of requests that have arrived so far
    lastStored,  \* history: service id -> what the last recomputation stored,
                 \* <<>> once a Review of that service was created or deleted
    features,    \* the APIFeatures object under construction
    handler,     \* the global error handler: NODE_ENV, the error, the response
    users,       \* User collection: user id -> document
    now,         \* Date.now(), in minutes
    nextToken,   \* next fresh plaintext token of crypto.randomBytes
    cookies,     \* ids of the users a token cookie was issued to
    wrapped,     \* one call of a controller wrapped by catchAsync
    verifiedBy   \* history: the plaintext tokens that verifyEmail accepted

vars == <<services, reviewsDb, nextSid, nextRid, req, arrived, lastStored, features, handler,
          users, now, nextToken, cookies, wrapped, verifiedBy>>

\* The state of the accounts and of the wrapped call.
AuthVars == <<users, now, nextToken, cookies, wrapped, verifiedBy>>

-----------------------------------------------------------------------------
(* Bounds *)

\* Requests that arrive in one run, and in one run where requests interleave.
MaxRequests == 4
MaxRacing == 3

Procs == {1, 2}
Users == {1, 2, 3}
Ratings == {3, 4, 5}
Prices == {10, 20}
ServiceIds == 1..MaxRequests
ReviewIds == 1..MaxRequests

\* Users present in the User collection, with their role field.
RoleOf == (1 :> "service_provider") @@ (2 :> "service_provider") @@ (3 :> "costumer")

-----------------------------------------------------------------------------
(* Numbers: averageRating is a quotient of two integers; it is kept as the *)
(* reduced fraction, which identifies the double that the division gives.  *)

RECURSIVE GCD(_, _)
GCD(a, b) == IF b = 0 THEN a ELSE GCD(b, a % b)

Zero == [num |-> 0, den |-> 1]

Quotient(sum, n) ==
    IF sum = 0 THEN Zero
    ELSE [num |-> sum \div GCD(sum, n), den |-> n \div GCD(sum, n)]

-----------------------------------------------------------------------------
(* Review.aggregate([{$match: {serviceId}}, {$group: {...}}])              *)

RECURSIVE SumRatings(_)
SumRatings(S) ==
    IF S = {} THEN 0
    ELSE LET r == CHOOSE x \in S : TRUE
         IN r.rating + SumRatings(S \ {r})

Match(db, serviceId) == {r \in db : r.serviceId = serviceId}

AggregateSkewed(db, serviceId) ==
    LET m == Match(db, serviceId)
    IN IF m = {} THEN <<>>
       ELSE << [averageRating |-> Quotient(SumRatings(m), Cardinality(m) + 1),
                totalReviews |-> Cardinality(m)] >>

Aggregate(db, serviceId) ==
    LET m == Match(db, serviceId)
    IN IF m = {} THEN <<>>
       ELSE << [averageRating |-> Quotient(SumRatings(m), Cardinality(m)),
                totalReviews |-> Cardinality(m)] >>

-----------------------------------------------------------------------------
(* Service model *)

\* serviceSchema.pre("save")
preSave(doc) ==
    IF doc.totalReviews = 0 THEN [doc EXCEPT !.averageRating = Zero] ELSE doc

\* Service.create({providerID, ..., price, ...}) with the schema defaults
NewService(providerID, price) ==
    preSave([providerID |-> providerID, price |-> price,
             averageRating |-> Zero, totalReviews |-> 0, reviews |-> <<>>])

\* Service.findByIdAndUpdate(id, patch): a no-op when the id matches nothing
findByIdAndUpdate(coll, id, patch) ==
    IF id \in DOMAIN coll
    THEN [coll EXCEPT ![id] =
            [f \in DOMAIN coll[id] |->
                IF f \in DOMAIN patch THEN patch[f] ELSE coll[id][f]]]
    ELSE coll

\* Service.findByIdAndDelete(id)
findByIdAndDelete(coll, id) == [s \in DOMAIN coll \ {id} |-> coll[s]]

-----------------------------------------------------------------------------
(* JavaScript values of a query string.  A string is the sequence of its   *)
(* characters; a value is a string, an array of strings (a parameter       *)
(* repeated in the query string), a number, NaN, undefined or an object.   *)
(* A character above U+00FF, which a string of a module cannot hold, is    *)
(* written by its code point ("U+2028").                                   *)
(* A finite number is n * base^e.  The base is 10, in the one form where    *)
(* e = 0 for an integer below 10^9 and n does not end in 0 for any other   *)
(* number, but for the doubles k * 2^-1074 with k below 2^31, which are    *)
(* the numbers with n = k, base 2 and e = -1074: of the doubles down to    *)
(* 2^31 * 2^-1074 no two are the nearest ones of two literals with a       *)
(* significand below 2^31, and below that a literal is rounded to its      *)
(* multiple of 2^-1074.  So two of the literals read, which have a         *)
(* significand below 2^31, are one number exactly when they are one        *)
(* double.  -0 is taken as 0.  Infinity and -Infinity are the numbers with *)
(* inf set and n = 1 or -1.                                                *)

Undefined == [t |-> "undefined", s |-> <<>>, n |-> 0,
    e |-> 0, base |-> 10, inf |-> FALSE, props |-> <<>>]
NaN == [t |-> "NaN", s |-> <<>>, n |-> 0,
    e |-> 0, base |-> 10, inf |-> FALSE, props |-> <<>>]
Str(chars) == [t |-> "string", s |-> <<chars>>, n |-> 0,
    e |-> 0, base |-> 10, inf |-> FALSE, props |-> <<>>]
Arr(strings) == [t |-> "array", s |-> strings, n |-> 0,
    e |-> 0, base |-> 10, inf |-> FALSE, props |-> <<>>]
Num(k) == [t |-> "number", s |-> <<>>, n |-> k,
    e |-> 0, base |-> 10, inf |-> FALSE, props |-> <<>>]
Obj(props) == [t |-> "object", s |-> <<>>, n |-> 0,
    e |-> 0, base |-> 10, inf |-> FALSE, props |-> props]
Infinity(sign) == [Num(sign) EXCEPT !.inf = TRUE]

Digits == <<"0", "1", "2", "3", "4", "5", "6", "7", "8", "9">>
IsDigit(c) == \E i \in 1..10 : Digits[i] = c
DigitVal(c) == (CHOOSE i \in 1..10 : Digits[i] = c) - 1

\* U+000B (vertical tab) and U+00A0 (no-break space)
VT == ""
NBSP == " "

\* LineTerminator: line feed, carriage return, U+2028 and U+2029
LineTerminator == {"\n", "\r", "U+2028", "U+2029"}
IsLineTerminator(c) == c \in LineTerminator

\* WhiteSpace: tab, vertical tab, form feed, U+FEFF and the space separators
WhiteSpace ==
    {"\t", VT, "\f", "U+FEFF",
     " ", NBSP, "U+1680", "U+2000", "U+2001", "U+2002", "U+2003", "U+2004", "U+2005",
     "U+2006", "U+2007", "U+2008", "U+2009", "U+200A", "U+202F", "U+205F", "U+3000"}

\* The characters that trim, Number and parseInt skip
StrWhiteSpaceChar == WhiteSpace \cup LineTerminator
IsSpace(c) == c \in StrWhiteSpaceChar

RECURSIVE DigitsValue(_)
DigitsValue(ds) ==
    IF ds = <<>> THEN 0
    ELSE 10 * DigitsValue(SubSeq(ds, 1, Len(ds) - 1)) + DigitVal(ds[Len(ds)])

RECURSIVE TrimStart(_)
TrimStart(chars) ==
    IF chars # <<>> /\ IsSpace(Head(chars)) THEN TrimStart(Tail(chars)) ELSE chars

RECURSIVE TrimEnd(_)
TrimEnd(chars) ==
    IF chars # <<>> /\ IsSpace(chars[Len(chars)])
    THEN TrimEnd(SubSeq(chars, 1, Len(chars) - 1)) ELSE chars

\* String.prototype.trim
Trim(chars) == TrimEnd(TrimStart(chars))

\* String.prototype.split(sep) for a one-character separator
RECURSIVE Split(_, _)
Split(chars, sep) ==
    IF \E i \in 1..Len(chars) : chars[i] = sep
    THEN LET i == CHOOSE j \in 1..Len(chars) :
                     chars[j] = sep /\ \A k \in 1..(j - 1) : chars[k] # sep
         IN <<SubSeq(chars, 1, i - 1)>> \o Split(SubSeq(chars, i + 1, Len(chars)), sep)
    ELSE <<chars>>

\* Array.prototype.join(sep)
RECURSIVE Join(_, _)
Join(strings, sep) ==
    IF strings = <<>> THEN <<>>
    ELSE IF Len(strings) = 1 THEN strings[1]
    ELSE strings[1] \o sep \o Join(Tail(strings), sep)

\* StringOf of a query value
StringOf(v) ==
    CASE v.t = "string" -> v.s[1]
      [] v.t = "array" -> Join(v.s, <<",">>)
      [] OTHER -> <<"u", "n", "d", "e", "f", "i", "n", "e", "d">>

\* The longest prefix of digits
RECURSIVE DigitPrefix(_)
DigitPrefix(chars) ==
    IF chars # <<>> /\ IsDigit(Head(chars))
    THEN <<Head(chars)>> \o DigitPrefix(Tail(chars)) ELSE <<>>

Signed(chars) == chars # <<>> /\ Head(chars) \in {"-", "+"}
Unsigned(chars) == IF Signed(chars) THEN Tail(chars) ELSE chars
Sign(chars) == IF chars # <<>> /\ Head(chars) = "-" THEN -1 ELSE 1

\* The digits of the radixes 2, 8 and 16, in either case
LowerHex == <<"0", "1", "2", "3", "4", "5", "6", "7", "8", "9", "a", "b", "c", "d", "e", "f">>
UpperHex == <<"0", "1", "2", "3", "4", "5", "6", "7", "8", "9", "A", "B", "C", "D", "E", "F">>
IsRadixDigit(c, radix) == \E i \in 1..radix : LowerHex[i] = c \/ UpperHex[i] = c
RadixDigitVal(c) == (CHOOSE i \in 1..16 : LowerHex[i] = c \/ UpperHex[i] = c) - 1

RECURSIVE RadixValue(_, _)
RadixValue(ds, radix) ==
    IF ds = <<>> THEN 0
    ELSE radix * RadixValue(SubSeq(ds, 1, Len(ds) - 1), radix) + RadixDigitVal(ds[Len(ds)])

\* The radix of a literal that starts with 0x, 0o or 0b, and 0 otherwise
RadixOf(chars) ==
    IF Len(chars) < 2 \/ chars[1] # "0" THEN 0
    ELSE CASE chars[2] \in {"x", "X"} -> 16
           [] chars[2] \in {"o", "O"} -> 8
           [] chars[2] \in {"b", "B"} -> 2
           [] OTHER -> 0

RECURSIVE Pow10(_)
Pow10(k) == IF k = 0 THEN 1 ELSE 10 * Pow10(k - 1)

RECURSIVE NumDigits(_)
NumDigits(m) == IF m < 10 THEN 1 ELSE 1 + NumDigits(m \div 10)

\* m * 10^e rounds to Infinity: it is at least 2^1024 - 2^970, which is
\* 1.797693134862315807... * 10^308, half way from the largest double,
\* 1.7976931348623157 * 10^308, to 2^1024.  Of a significand of at most ten
\* digits the first ten decide, the first nine of them and the tenth: they
\* are above 1797693134 or not.
Overflows(m, e) ==
    LET x == NumDigits(m) + e - 1
        Leading == IF NumDigits(m) > 9 THEN m \div Pow10(NumDigits(m) - 9)
                   ELSE m * Pow10(9 - NumDigits(m))
        Tenth == IF NumDigits(m) > 9 THEN (m \div Pow10(NumDigits(m) - 10)) % 10 ELSE 0
    IN \/ x > 308
       \/ /\ x = 308
          /\ \/ Leading > 179769313
             \/ Leading = 179769313 /\ Tenth >= 5

\* A natural number beyond the width of an integer is the sequence of its
\* digits of base 1000, the lowest first.
\* a * c for an integer c: the digit i of the product is the sum of a[i]
\* times the six low digits of c and a[i - 2] times the rest, which is below
\* 2^31. Four rounds of carries, in each of which a digit keeps what it has
\* below 1000 and takes what the digit below it has above, bring every digit
\* to 1000 at most; in the last carries a digit takes 1 when a digit below it
\* is 1000 and every digit between them is 999. The zeros at the top are left
\* out.
Times(a, c) ==
    LET at(j) == IF j >= 1 /\ j <= Len(a) THEN a[j] ELSE 0
        sums == SubSeq([i \in 1..(Len(a) + 2) |->
                           at(i) * (c % 1000000) + at(i - 2) * (c \div 1000000)],
                       1, Len(a) + 2)
        Carried(b) ==
            SubSeq([i \in 1..(Len(b) + 1) |->
                       (IF i <= Len(b) THEN b[i] % 1000 ELSE 0)
                       + (IF i > 1 THEN b[i - 1] \div 1000 ELSE 0)], 1, Len(b) + 1)
        carry(b, i) == \E j \in 1..(i - 1) :
                           b[j] = 1000 /\ \A l \in (j + 1)..(i - 1) : b[l] = 999
        Settled(b) ==
            SubSeq([i \in 1..Len(b) |-> (b[i] + (IF carry(b, i) THEN 1 ELSE 0)) % 1000],
                   1, Len(b))
        Top(b) ==
            SubSeq(b, 1, CHOOSE n \in 0..Len(b) :
                             (n = 0 \/ b[n] # 0) /\ \A i \in (n + 1)..Len(b) : b[i] = 0)
    IN Top(Settled(Carried(Carried(Carried(Carried(sums))))))

\* 2^1074, of 324 decimal digits from 202 402 253 307 310 618 ... down to
\* ... 263 307 707 741 093 494 784: the doubles below 2^-1022 are the
\* multiples of 2^-1074
TwoTo1074 ==
    << 784, 494,  93, 741, 707, 307, 263,   6, 646, 508, 327, 186,
       532, 502, 230, 615, 414, 333, 552, 769, 358, 512,  56, 810,
       340, 556, 159, 649, 355, 103, 618, 698, 692, 424, 483,   7,
       562,  68, 745, 472, 678, 767, 239, 341, 216,  93, 742, 907,
       466, 364, 361, 566, 276, 424, 517, 921, 509, 738, 940, 399,
        13, 867, 476, 793, 385, 737, 808, 389, 911, 811, 316, 864,
        77, 187, 495, 124, 437, 701, 383, 960, 891, 346, 995, 567,
       339, 430,  27, 358, 901, 356, 118, 142, 764, 649, 556,  49,
       307, 917, 718, 346, 495, 352, 618, 310, 307, 253, 402, 202 >>

\* The multiple of 2^-1074 nearest to m * 10^-j, for m * 10^-j below 10^-313:
\* m * 2^1074 / 10^j, which has at most eleven digits before the point,
\* rounded by the first digit after it (it is never half way: 5^j does not
\* divide m); the result is hi * 10^6 + lo. DigitAt is the decimal digit at
\* a position, the units being at 0, and DigitsAt the integer of n digits
\* from a position on.
Ulps(m, j) ==
    LET x == Times(TwoTo1074, m)
        DigitAt(p) ==
            IF p \div 3 + 1 > Len(x) THEN 0 ELSE (x[p \div 3 + 1] \div Pow10(p % 3)) % 10
        DigitsAt(p, n) ==
            LET RECURSIVE From(_)
                From(i) == IF i = n THEN 0 ELSE DigitAt(p + i) * Pow10(i) + From(i + 1)
            IN From(0)
        lo == DigitsAt(j, 6) + (IF DigitAt(j - 1) >= 5 THEN 1 ELSE 0)
        hi == DigitsAt(j + 6, 5)
    IN IF lo = 1000000 THEN [hi |-> hi + 1, lo |-> 0] ELSE [hi |-> hi, lo |-> lo]

\* The number sign * m * 10^e, for m > 0, in its one form
RECURSIVE OneForm(_, _, _)
OneForm(sign, m, e) ==
    IF m % 10 = 0 THEN OneForm(sign, m \div 10, e + 1)
    ELSE IF e > 0 /\ NumDigits(m) + e <= 9 THEN Num(sign * m * Pow10(e))
    ELSE [Num(sign * m) EXCEPT !.e = e]

\* The double k * 2^-1074
Subnormal(k) == [Num(k) EXCEPT !.base = 2, !.e = -1074]

\* The double that sign * m * 10^e rounds to, for m >= 0: Infinity from
\* 2^1024 - 2^970 on; below 10^-313 the nearest multiple of 2^-1074, which is
\* 0 up to 2^-1075.
Decimal(sign, m, e) ==
    IF m = 0 THEN Num(0)
    ELSE IF Overflows(m, e) THEN Infinity(sign)
    ELSE IF NumDigits(m) + e > -313 THEN OneForm(sign, m, e)
    ELSE LET k == Ulps(m, 0 - e)
         IN IF k.hi = 0 /\ k.lo = 0 THEN Num(0)
            ELSE IF k.hi < 2147 \/ (k.hi = 2147 /\ k.lo <= 483647)
            THEN Subnormal(sign * (k.hi * 1000000 + k.lo))
            ELSE OneForm(sign, m, e)

\* StrUnsignedDecimalLiteral: digits, then an optional point and digits, then
\* an optional exponent; the parts of a string read in that way, and what is
\* left of it after them.
DecimalParts(chars) ==
    LET integer == DigitPrefix(chars)
        afterInteger == SubSeq(chars, Len(integer) + 1, Len(chars))
        point == afterInteger # <<>> /\ Head(afterInteger) = "."
        fraction == IF point THEN DigitPrefix(Tail(afterInteger)) ELSE <<>>
        afterFraction == IF point
                         THEN SubSeq(afterInteger, Len(fraction) + 2, Len(afterInteger))
                         ELSE afterInteger
        hasExponent == afterFraction # <<>> /\ Head(afterFraction) \in {"e", "E"}
    IN [integer |-> integer, fraction |-> fraction, hasExponent |-> hasExponent,
        exponent |-> IF hasExponent THEN Tail(afterFraction) ELSE <<>>,
        rest |-> IF hasExponent THEN <<>> ELSE afterFraction]

IsDecimalLiteral(chars) ==
    LET parts == DecimalParts(chars)
    IN /\ parts.integer # <<>> \/ parts.fraction # <<>>
       /\ parts.rest = <<>>
       /\ parts.hasExponent =>
              /\ Unsigned(parts.exponent) # <<>>
              /\ DigitPrefix(Unsigned(parts.exponent)) = Unsigned(parts.exponent)

\* The digits without the zeros at their end
RECURSIVE DropZeros(_)
DropZeros(ds) ==
    IF ds # <<>> /\ ds[Len(ds)] = "0" THEN DropZeros(SubSeq(ds, 1, Len(ds) - 1)) ELSE ds

\* The value of the digits of an exponent, without the zeros at their start;
\* one of ten digits or more counts as 10^9, which the other digits of a
\* string cannot make up for.
ExponentValue(ds) ==
    LET RECURSIVE SkipZeros(_)
        SkipZeros(d) == IF d # <<>> /\ d[1] = "0" THEN SkipZeros(Tail(d)) ELSE d
    IN IF Len(SkipZeros(ds)) > 9 THEN 1000000000 ELSE DigitsValue(SkipZeros(ds))

DecimalValue(sign, chars) ==
    LET parts == DecimalParts(chars)
        exponent == IF parts.hasExponent
                    THEN Sign(parts.exponent) * ExponentValue(Unsigned(parts.exponent))
                    ELSE 0
        digits == parts.integer \o parts.fraction
        significant == DropZeros(digits)
    IN Decimal(sign, DigitsValue(significant),
               exponent - Len(parts.fraction) + Len(digits) - Len(significant))

InfinityWord == <<"I", "n", "f", "i", "n", "i", "t", "y">>

\* StringToNumber: white space is trimmed and the empty string is 0; the
\* rest is, as a whole, a literal of radix 16, 8 or 2 without a sign, or a
\* signed Infinity or decimal literal; anything else is NaN.
StringToNumber(chars) ==
    LET x == Trim(chars)
        radix == RadixOf(x)
        unsigned == Unsigned(x)
    IN IF x = <<>> THEN Num(0)
       ELSE IF radix # 0
       THEN IF Len(x) > 2 /\ \A i \in 3..Len(x) : IsRadixDigit(x[i], radix)
            THEN Decimal(1, RadixValue(SubSeq(x, 3, Len(x)), radix), 0)
            ELSE NaN
       ELSE IF unsigned = InfinityWord THEN Infinity(Sign(x))
       ELSE IF IsDecimalLiteral(unsigned) THEN DecimalValue(Sign(x), unsigned)
       ELSE NaN

\* Number(value)
ToNumber(v) ==
    CASE v.t = "number" -> v
      [] v.t \in {"string", "array"} -> StringToNumber(StringOf(v))
      [] OTHER -> NaN

isNaN(v) == ToNumber(v).t = "NaN"

\* parseInt(value, 10): leading white space and a sign are skipped and the
\* longest prefix of digits is read; NaN when there is none.
parseInt(v) ==
    LET x == TrimStart(StringOf(v))
    IN IF DigitPrefix(Unsigned(x)) = <<>> THEN NaN
       ELSE Num(Sign(x) * DigitsValue(DigitPrefix(Unsigned(x))))

\* ToBoolean
Truthy(v) ==
    CASE v.t = "string" -> v.s[1] # <<>>
      [] v.t = "number" -> v.n # 0
      [] v.t \in {"array", "object"} -> TRUE
      [] OTHER -> FALSE

\* a || b
OrElse(a, b) == IF Truthy(a) THEN a ELSE b

-----------------------------------------------------------------------------
(* APIFeatures (utils/apiFeatures): filter, sort, limitFields, paginate    *)

K_page == <<"p", "a", "g", "e">>
K_sort == <<"s", "o", "r", "t">>
K_limit == <<"l", "i", "m", "i", "t">>
K_fields == <<"f", "i", "e", "l", "d", "s">>
K_tags == <<"t", "a", "g", "s">>

\* const { page, sort, limit, fields, tags, ...filters } = this.queryString
ReservedKeys == {K_page, K_sort, K_limit, K_fields, K_tags}

\* The query string is the sequence of its entries, in the order they were
\* set on the object.
Has(qs, key) == \E i \in 1..Len(qs) : qs[i].key = key

\* this.queryString[key]
Get(qs, key) ==
    IF Has(qs, key) THEN qs[CHOOSE i \in 1..Len(qs) : qs[i].key = key].value
    ELSE Undefined

\* The digits a stand for a smaller integer than the digits b
DigitsBefore(a, b) ==
    \/ Len(a) < Len(b)
    \/ /\ Len(a) = Len(b)
       /\ \E i \in 1..Len(a) : /\ DigitVal(a[i]) < DigitVal(b[i])
                                /\ \A j \in 1..(i - 1) : a[j] = b[j]

\* An array index: the canonical string of an integer from 0 to 2^32 - 2
MaxArrayIndex == <<"4", "2", "9", "4", "9", "6", "7", "2", "9", "4">>
IsArrayIndex(key) ==
    /\ key # <<>>
    /\ \A i \in 1..Len(key) : IsDigit(key[i])
    /\ key[1] # "0" \/ Len(key) = 1
    /\ ~DigitsBefore(MaxArrayIndex, key)

HasIndexKey(e) == IsArrayIndex(e.key)
HasNameKey(e) == ~IsArrayIndex(e.key)

\* Entries with index keys, in ascending order of the index
RECURSIVE Ascending(_)
Ascending(entries) ==
    IF entries = <<>> THEN <<>>
    ELSE LET i == CHOOSE k \in 1..Len(entries) :
                     \A j \in 1..Len(entries) : ~DigitsBefore(entries[j].key, entries[k].key)
         IN <<entries[i]>> \o
            Ascending(SubSeq(entries, 1, i - 1) \o SubSeq(entries, i + 1, Len(entries)))

\* The own properties of an object in the order that Object.entries and a
\* rest pattern visit them: the array indices in ascending order, then the
\* other keys in the order they were set.
OwnEntries(qs) == Ascending(SelectSeq(qs, HasIndexKey)) \o SelectSeq(qs, HasNameKey)

IsFilterEntry(e) == e.key \notin ReservedKeys

\* Object.entries(filters)
Filters(qs) == SelectSeq(OwnEntries(qs), IsFilterEntry)

RangeOps == {<<"g", "t", "e">>, <<"g", "t">>, <<"l", "t", "e">>, <<"l", "t">>}

OpTail(op) == <<"[">> \o op \o <<"]">>

EndsWith(chars, tail) ==
    Len(chars) >= Len(tail)
    /\ SubSeq(chars, Len(chars) - Len(tail) + 1, Len(chars)) = tail

\* key.match(/^(.+)\[(gte|gt|lte|lt)\]$/): the operators that match (one or
\* none); the dot matches any character but a line terminator.
KeyMatch(key) ==
    {op \in RangeOps :
        /\ Len(key) > Len(OpTail(op))
        /\ EndsWith(key, OpTail(op))
        /\ \A i \in 1..(Len(key) - Len(OpTail(op))) : ~IsLineTerminator(key[i])}

MatchField(key, op) == SubSeq(key, 1, Len(key) - Len(OpTail(op)))

\* isNaN(value) ? value : Number(value)
Coerce(value) == IF isNaN(value) THEN value ELSE ToNumber(value)

\* { ...props, [key]: value }: the property of a literal is the object's own,
\* whatever the key is
With(props, key, value) ==
    [k \in DOMAIN props \cup {key} |-> IF k = key THEN value ELSE props[k]]

ProtoKey == <<"_", "_", "p", "r", "o", "t", "o", "_", "_">>

\* Object.prototype, which has no enumerable property
ObjectPrototype == Obj(<<>>)

\* const mongoQuery = {}: an object is its own properties and its prototype
EmptyObject == [own |-> <<>>, proto |-> ObjectPrototype]

\* obj[key] = value: the own property is set, but for __proto__, which is the
\* accessor of Object.prototype unless the object has it as its own: the
\* value becomes the prototype when it is an object or an array, and nothing
\* happens when it is not
Put(obj, key, value) ==
    IF key = ProtoKey /\ key \notin DOMAIN obj.own
    THEN IF value.t \in {"object", "array"} THEN [obj EXCEPT !.proto = value] ELSE obj
    ELSE [obj EXCEPT !.own = With(@, key, value)]

SpreadNothing(v) == <<>>

\* String(i) for an index i
RECURSIVE IndexKey(_)
IndexKey(i) ==
    IF i < 10 THEN <<Digits[i + 1]>> ELSE IndexKey(i \div 10) \o <<Digits[(i % 10) + 1]>>

\* {...value}: the own enumerable properties; the characters of a string and
\* the elements of an array under their indices, nothing for a number.
Spread(v) ==
    CASE v.t = "object" -> v.props
      [] v.t = "string" ->
            [k \in {IndexKey(i - 1) : i \in 1..Len(v.s[1])} |->
                Str(<<v.s[1][DigitsValue(k) + 1]>>)]
      [] v.t = "array" ->
            [k \in {IndexKey(i - 1) : i \in 1..Len(v.s)} |-> Str(v.s[DigitsValue(k) + 1])]
      [] OTHER -> <<>>

\* {...proto[key]} for a prototype set by the loop: an element of an array or
\* a property of an object is spread; the length of an array, a number, and
\* the methods of Array.prototype and Object.prototype, which have no
\* enumerable property, give nothing, and so does a key that is not found.
SpreadInherited(proto, key) ==
    CASE proto.t = "array" /\ (\E i \in 1..Len(proto.s) : IndexKey(i - 1) = key) ->
            Spread(Str(proto.s[CHOOSE i \in 1..Len(proto.s) : IndexKey(i - 1) = key]))
      [] proto.t = "object" /\ key \in DOMAIN proto.props -> Spread(proto.props[key])
      [] OTHER -> <<>>

\* {...obj[key]}: the own property, else the one inherited; obj.__proto__ is
\* the prototype itself
SpreadMember(obj, key) ==
    IF key \in DOMAIN obj.own THEN Spread(obj.own[key])
    ELSE IF key = ProtoKey THEN Spread(obj.proto)
    ELSE SpreadInherited(obj.proto, key)

\* One round of the loop over Object.entries(filters)
FilterStep(mongoQuery, key, value) ==
    IF KeyMatch(key) # {}
    THEN LET op == CHOOSE o \in KeyMatch(key) : TRUE
             field == MatchField(key, op)
         IN Put(mongoQuery, field,
                Obj(With(SpreadMember(mongoQuery, field), <<"$">> \o op, Coerce(value))))
    ELSE Put(mongoQuery, key, Coerce(value))

RECURSIVE FilterLoop(_, _)
FilterLoop(mongoQuery, entries) ==
    IF entries = <<>> THEN mongoQuery
    ELSE FilterLoop(FilterStep(mongoQuery, Head(entries).key, Head(entries).value),
                    Tail(entries))

NonEmpty(chars) == chars # <<>>

TrimAll(strings) == [i \in 1..Len(strings) |-> Trim(strings[i])]

TagArrUntrimmed(tags) == SelectSeq(Split(tags, ","), NonEmpty)

\* tags.split(',').map(tag => tag.trim()).filter(Boolean)
TagArr(tags) == SelectSeq(TrimAll(Split(tags, ",")), NonEmpty)

K_all == <<"$", "a", "l", "l">>

\* if (tagArr.length > 0) mongoQuery.tags = { $all: tagArr }
TagFilter(mongoQuery, tags) ==
    IF Len(TagArr(tags)) > 0
    THEN Put(mongoQuery, K_tags, Obj(With(<<>>, K_all, Arr(TagArr(tags)))))
    ELSE mongoQuery

\* An APIFeatures object: the query string, the parts of the query built so
\* far, the methods applied, and the method that threw a TypeError, if any.
NoFeatures == [live |-> FALSE, queryString |-> <<>>, applied |-> {}, thrown |-> "",
               find |-> <<>>, sortBy |-> <<>>, select |-> <<>>, skip |-> 0, limit |-> 0]

\* new APIFeatures(query, queryString)
NewFeatures(qs) == [NoFeatures EXCEPT !.live = TRUE, !.queryString = qs]

\* value.split(...) on a value that is no string: TypeError
Throws(f, method) == [f EXCEPT !.thrown = method]

Applied(f, method) == [f EXCEPT !.applied = @ \cup {method}]

\* filter(); find() reads the own properties of the filter it is given
filter(f) ==
    LET tags == Get(f.queryString, K_tags)
        mongoQuery == FilterLoop(EmptyObject, Filters(f.queryString))
    IN IF ~Truthy(tags) THEN [Applied(f, "filter") EXCEPT !.find = mongoQuery.own]
       ELSE IF tags.t # "string" THEN Throws(f, "filter")
       ELSE [Applied(f, "filter") EXCEPT !.find = TagFilter(mongoQuery, tags.s[1]).own]

DefaultSort == <<"-", "c", "r", "e", "a", "t", "e", "d", "A", "t">>
DefaultSelect == <<"-", "_", "_", "v">>

\* sort()
sort(f) ==
    LET s == Get(f.queryString, K_sort)
    IN IF ~Truthy(s) THEN [Applied(f, "sort") EXCEPT !.sortBy = DefaultSort]
       ELSE IF s.t # "string" THEN Throws(f, "sort")
       ELSE [Applied(f, "sort") EXCEPT !.sortBy = Join(Split(s.s[1], ","), <<" ">>)]

\* limitFields()
limitFields(f) ==
    LET s == Get(f.queryString, K_fields)
    IN IF ~Truthy(s) THEN [Applied(f, "limitFields") EXCEPT !.select = DefaultSelect]
       ELSE IF s.t # "string" THEN Throws(f, "limitFields")
       ELSE [Applied(f, "limitFields") EXCEPT !.select = Join(Split(s.s[1], ","), <<" ">>)]

DefaultPage == 1
DefaultLimit == 100

paginateOffByOne(f) ==
    LET page == OrElse(parseInt(Get(f.queryString, K_page)), Num(DefaultPage)).n
        limit == OrElse(parseInt(Get(f.queryString, K_limit)), Num(DefaultLimit)).n
    IN [Applied(f, "paginate") EXCEPT !.skip = page * limit, !.limit = limit]

\* paginate()
paginate(f) ==
    LET page == OrElse(parseInt(Get(f.queryString, K_page)), Num(DefaultPage)).n
        limit == OrElse(parseInt(Get(f.queryString, K_limit)), Num(DefaultLimit)).n
    IN [Applied(f, "paginate") EXCEPT !.skip = (page - 1) * limit, !.limit = limit]

Entry(key, value) == [key |-> key, value |-> value]

\* The entries for filter()
Params ==
    { Entry(K_tags, Str(<<"a", ",", " ", "b", " ", ",", "b">>)),
      Entry(K_tags, Str(<<" ", ",", " ">>)),
      Entry(K_tags, Arr(<<<<"a">>, <<"b">>>>)),
      Entry(K_tags, Str(<<>>)),
      Entry(K_tags, Str(<<VT, "a", NBSP, ",", "U+FEFF", "U+2028">>)),
      Entry(<<"p", "r", "i", "c", "e">>, Str(<<"2", "0">>)),
      Entry(<<"p", "r", "i", "c", "e">>, Str(<<"a", "b", "c">>)),
      Entry(<<"p", "r", "i", "c", "e">>, Str(<<"1", "9", ".", "5">>)),
      Entry(<<"p", "r", "i", "c", "e", "[", "g", "t", "e", "]">>, Str(<<"2", "0">>)),
      Entry(<<"p", "r", "i", "c", "e", "[", "l", "t", "e", "]">>, Str(<<VT, "1", "e", "3", NBSP>>)),
      Entry(<<"p", "r", "i", "c", "e", "[", "g", "t", "]">>, Str(<<"x">>)),
      Entry(<<"p", "r", "i", "c", "e", "[", "n", "e", "]">>, Str(<<"0", "x", "3", "B", "9", "A", "C", "A", "0", "0">>)),
      Entry(<<"t", "i", "t", "l", "e">>, Str(<<>>)),
      Entry(<<"t", "i", "t", "l", "e">>, Str(<<"\t", "I", "n", "f", "i", "n", "i", "t", "y">>)),
      Entry(<<"5">>, Str(<<"a", "b", "c", "d", "e", "f", "g", "h", "i", "j", "k">>)),
      Entry(<<"5", "[", "g", "t", "e", "]">>, Str(<<"1">>)),
      Entry(<<"a", "\n", "[", "g", "t", "e", "]">>, Str(<<"1">>)),
      Entry(ProtoKey, Str(<<"5">>)),
      Entry(<<"t", "i", "t", "l", "e">>, Str(<<"1", "7", "9", "7", "6", "9", "3", "1", "3", "5", "e", "2", "9", "9">>)),
      Entry(K_page, Str(<<"2">>)) }

\* The entries for sort(), limitFields() and paginate()
PagingParams ==
    { Entry(K_page, Str(<<"2">>)),
      Entry(K_page, Str(<<"0">>)),
      Entry(K_page, Str(<<"-", "1">>)),
      Entry(K_page, Str(<<"x">>)),
      Entry(K_page, Str(<<VT, NBSP, "2">>)),
      Entry(K_limit, Str(<<"1", "0">>)),
      Entry(K_limit, Str(<<"0">>)),
      Entry(K_limit, Str(<<"-", "5">>)),
      Entry(K_sort, Str(<<"p", "r", "i", "c", "e", ",", "-", "t", "i", "t", "l", "e">>)),
      Entry(K_sort, Arr(<<<<"p", "r", "i", "c", "e">>, <<"t", "i", "t", "l", "e">>>>)),
      Entry(K_fields, Str(<<"t", "i", "t", "l", "e">>)),
      Entry(K_fields, Arr(<<<<"t", "i", "t", "l", "e">>, <<"p", "r", "i", "c", "e">>>>)),
      Entry(<<"p", "r", "i", "c", "e">>, Str(<<"2", "0">>)) }

\* The query strings of at most n entries (a JavaScript object has no key twice).
RECURSIVE QueriesUpTo(_, _)
QueriesUpTo(params, n) ==
    IF n = 0 THEN {<<>>}
    ELSE LET shorter == QueriesUpTo(params, n - 1)
         IN shorter \cup {Append(q, e) : q \in shorter, e \in params}

MaxParams == 3

DistinctKeys(q) == \A i, j \in 1..Len(q) : q[i].key = q[j].key => i = j

Queries == {q \in QueriesUpTo(Params, MaxParams) : DistinctKeys(q)}
PagingQueries == {q \in QueriesUpTo(PagingParams, MaxParams) : DistinctKeys(q)}

-----------------------------------------------------------------------------
(* Errors (utils/appError.js, controllers/error.controller.js).  An error  *)
(* object has a name, a message and a stack, which are not enumerable, and  *)
(* its enumerable own properties `own`; an absent property holds 0, "",     *)
(* FALSE or <<>>.  A message is a sequence of strings; the texts of the     *)
(* source are rendered in English.                                          *)

NoOwn == [statusCode |-> 0, status |-> "", isOperational |-> FALSE, code |-> 0,
          path |-> "", value |-> "", errors |-> <<>>, keyValue |-> <<>>]

\* `${statusCode}`.startsWith("4")
StartsWith4(statusCode) == statusCode \div 100 = 4

\* new AppError(message, statusCode)
AppError(message, statusCode) ==
    [name |-> "Error", message |-> message, stack |-> <<"AppError stack">>,
     own |-> [NoOwn EXCEPT !.statusCode = statusCode,
                           !.status = IF StartsWith4(statusCode) THEN "fail" ELSE "error",
                           !.isOperational = TRUE]]

\* An error of a library or of the runtime.
LibraryError(name, message, own) ==
    [name |-> name, message |-> message, stack |-> <<name, "stack">>, own |-> own]

handleCastErrorDB(err) ==
    AppError(<<"Invalid data ", err.own.path, ": ", err.own.value>>, 400)

handleDuplicateFieldsDB(err) ==
    AppError(<<"The value of field ", err.own.keyValue[1][1], " is in use: ",
               err.own.keyValue[1][2]>>, 400)

RECURSIVE JoinMessages(_)
JoinMessages(errors) ==
    IF errors = <<>> THEN <<>>
    ELSE IF Len(errors) = 1 THEN <<errors[1]>>
    ELSE <<errors[1], ". ">> \o JoinMessages(Tail(errors))

handleValidationErrorDB(err) ==
    AppError(<<"Invalid data. ">> \o JoinMessages(err.own.errors), 400)

handleJWTError == AppError(<<"Invalid token. Please log in again!">>, 401)

handleJWTExpiredError == AppError(<<"Your token has expired. Please log in again!">>, 401)

NoResponse == [sent |-> FALSE, code |-> 0, status |-> "", message |-> <<>>,
               stack |-> <<>>, error |-> FALSE]

\* sendErrorDev: status, message, stack and the error itself
sendErrorDev(err) ==
    [sent |-> TRUE, code |-> err.own.statusCode, status |-> err.own.status,
     message |-> err.message, stack |-> err.stack, error |-> TRUE]

GenericStatus == "error (fixed text)"
GenericMessage == <<"Something went wrong">>

\* sendErrorProd: status and message of an operational error, a fixed 500
\* otherwise
sendErrorProd(err) ==
    IF err.own.isOperational
    THEN [NoResponse EXCEPT !.sent = TRUE, !.code = err.own.statusCode,
                            !.status = err.own.status, !.message = err.message]
    ELSE [NoResponse EXCEPT !.sent = TRUE, !.code = 500, !.status = GenericStatus,
                            !.message = GenericMessage]

\* err.statusCode = err.statusCode || 500; err.status = err.status || <text>
WithDefaults(err) ==
    [err EXCEPT !.own.statusCode = IF @ # 0 THEN @ ELSE 500,
                !.own.status = IF @ # "" THEN @ ELSE GenericStatus]

\* let error = { ...err }; error.name = err.name: the enumerable own
\* properties and the name; the message and the stack are not copied.
SpreadError(err) == [name |-> err.name, message |-> <<>>, stack |-> <<>>, own |-> err.own]

\* The chain of conversions, each looking at the result of the one before.
Convert1(e) == IF e.name = "CastError" THEN handleCastErrorDB(e) ELSE e
Convert2(e) == IF e.name = "ValidationError" THEN handleValidationErrorDB(e) ELSE e
Convert3(e) == IF e.own.code = 11000 THEN handleDuplicateFieldsDB(e) ELSE e
Convert4(e) == IF e.name = "JsonWebTokenError" THEN handleJWTError ELSE e
Convert5(e) == IF e.name = "TokenExpiredError" THEN handleJWTExpiredError ELSE e

Converted(e) == Convert5(Convert4(Convert3(Convert2(Convert1(e)))))

Envs == {"dev", "prod", "test"}

\* The response of globalErrorHandler(err, req, res, next) under NODE_ENV =
\* env; no response is sent when env is neither "dev" nor "prod".
Answer(env, err) ==
    IF env = "dev" THEN sendErrorDev(WithDefaults(err))
    ELSE IF env = "prod" THEN sendErrorProd(Converted(SpreadError(WithDefaults(err))))
    ELSE NoResponse

Messages == {<<"Service not found">>, <<"You may not delete this service">>}
StatusCodes == {400, 401, 403, 404, 500}

AppErrors == {AppError(m, c) : m \in Messages, c \in StatusCodes}

CastErrors ==
    {LibraryError("CastError", <<"Cast to ObjectId failed">>,
                  [NoOwn EXCEPT !.path = p, !.value = v]) :
        p \in {"_id", "price"}, v \in {"abc", "1x"}}

ValidationErrors ==
    {LibraryError("ValidationError", <<"Validation failed">>, [NoOwn EXCEPT !.errors = e]) :
        e \in {<<"title is required">>, <<"title is required", "price is required">>}}

DuplicateKeyErrors ==
    {LibraryError("MongoServerError", <<"E11000 duplicate key">>,
                  [NoOwn EXCEPT !.code = 11000, !.keyValue = <<<<f, v>>>>]) :
        f \in {"email", "phone"}, v \in {"a@b.c", "555"}}

JWTErrors ==
    {LibraryError("JsonWebTokenError", <<"jwt malformed">>, NoOwn),
     LibraryError("TokenExpiredError", <<"jwt expired">>, NoOwn)}

\* Programming errors, and an error of a middleware that carries a status.
OtherErrors ==
    {LibraryError("TypeError", <<"x.split is not a function">>, NoOwn),
     LibraryError("ReferenceError", <<"y is not defined">>, NoOwn),
     LibraryError("PayloadTooLargeError", <<"request entity too large">>,
                  [NoOwn EXCEPT !.statusCode = 413])}

Errors == AppErrors \cup CastErrors \cup ValidationErrors \cup DuplicateKeyErrors
             \cup JWTErrors \cup OtherErrors

NoError == LibraryError("", <<>>, NoOwn)

NoHandler == [env |-> "prod", stage |-> "idle", err |-> NoError, res |-> NoResponse]

-----------------------------------------------------------------------------
(* User model (models/user.model.js).  A field that is undefined holds     *)
(* Unset.  Times are in minutes.  A plaintext token is a number, fresh at  *)
(* every crypto.randomBytes; only its SHA-256 digest is stored.  The name, *)
(* the phone fields and passwordChangedAt, which no handler here reads,    *)
(* are left out of the document.                                           *)

Unset == <<>>

\* crypto.createHash("sha256").update(token).digest("hex")
sha256(token) == <<"sha256", token>>

\* bcrypt.hash(password, 12)
bcrypt(password) == <<"bcrypt", password>>

\* userSchema.methods.correctPassword: bcrypt.compare(candidate, hash)
correctPassword(candidatePassword, userPassword) ==
    bcrypt(candidatePassword) = userPassword

\* emailVerificationExpires = Date.now() + 24 * 60 * 60 * 1000
EmailTTL == 1440

\* passwordResetExpires = Date.now() + 10 * 60 * 1000
ResetTTL == 10

\* The passwordConfirm validator: function (el) { return el === this.password }
passwordConfirmValid(doc) == doc.passwordConfirm = doc.password

\* The document User.create stores: the schema defaults (role "costumer",
\* isEmailVerified false), and the pre-save hook that hashes the password.
NewUser(doc) ==
    [email |-> doc.email,
     password |-> bcrypt(doc.password),
     role |-> IF "role" \in DOMAIN doc THEN doc.role ELSE "costumer",
     isEmailVerified |-> FALSE,
     emailVerificationToken |-> Unset,
     emailVerificationExpires |-> Unset,
     passwordResetToken |-> Unset,
     passwordResetExpires |-> Unset]

\* An account that was not made through the API: its email is verified.
Account(email, password, role) ==
    [NewUser([email |-> email, password |-> password, role |-> role])
        EXCEPT !.isEmailVerified = TRUE]

Passwords == {"pw1", "pw2"}

\* The User collection of the marketplace: the users of RoleOf.
AccountEmail == (1 :> "u1@services.ge") @@ (2 :> "u2@services.ge") @@ (3 :> "u3@services.ge")

Accounts == [u \in Users |-> Account(AccountEmail[u], "pw1", RoleOf[u])]

\* userSchema.methods.createEmailVerification: the fields it sets
createEmailVerification(token, at) ==
    [emailVerificationToken |-> sha256(token),
     emailVerificationExpires |-> at + EmailTTL]

\* userSchema.methods.createPasswordResetToken: the fields it sets
createPasswordResetToken(token, at) ==
    [passwordResetToken |-> sha256(token),
     passwordResetExpires |-> at + ResetTTL]

\* user.save(): writes the modified paths of the document
save(coll, id, modified) ==
    [coll EXCEPT ![id] =
        [f \in DOMAIN coll[id] |->
            IF f \in DOMAIN modified THEN modified[f] ELSE coll[id][f]]]

\* The pre-save hook on a modified password: the hash is stored and
\* passwordConfirm is set to undefined, so it is never persisted.
hashPassword(modified) ==
    [f \in DOMAIN modified \ {"passwordConfirm"} |->
        IF f = "password" THEN bcrypt(modified[f]) ELSE modified[f]]

\* No call of a wrapped controller is in progress.
NoCall == [stage |-> "idle", awaits |-> 0, at |-> 0, nextCalls |-> <<>>,
           responses |-> 0, settled |-> ""]

-----------------------------------------------------------------------------
(* Requests *)

IdleReq == [op |-> "none", pc |-> "idle", user |-> 0, sid |-> 0, rid |-> 0,
            rating |-> 0, updates |-> <<>>, stats |-> <<>>, status |-> 0,
            nrecomp |-> 0, query |-> <<>>, results |-> {}, body |-> <<>>,
            doc |-> <<>>]

Idle(p) == req[p].pc = "idle"

\* The response (or the error handed to next) ends the request.
Respond(r, code) ==
    [r EXCEPT !.pc = "done", !.status = code, !.rid = 0,
              !.sid = IF code >= 400 THEN 0 ELSE @,
              !.rating = 0, !.updates = <<>>, !.stats = <<>>, !.body = <<>>,
              !.doc = <<>>]

\* restrictTo(...roles): does the user's role pass
restrictTo(roles, user) == users[user].role \in roles

ProviderRoles == {"service_provider", "admin", "moderator"}

\* A request takes the first free slot of the table of requests in flight.
Free(p) == Idle(p) /\ \A q \in Procs : q < p => ~Idle(q)

\* The ids a request can name: those handed out so far, and one that was not.
KnownServiceIds == 1..nextSid
KnownReviewIds == 1..nextRid

Init ==
    /\ services = [s \in {} |-> IdleReq]
    /\ reviewsDb = {}
    /\ nextSid = 1
    /\ nextRid = 1
    /\ req = [p \in Procs |-> IdleReq]
    /\ arrived = 0
    /\ lastStored = [s \in ServiceIds |-> <<>>]
    /\ features = NoFeatures
    /\ handler = NoHandler
    /\ users = Accounts
    /\ now = 0
    /\ nextToken = 1
    /\ cookies = {}
    /\ wrapped = NoCall
    /\ verifiedBy = {}

-----------------------------------------------------------------------------
(* createReview (review.controller.js) *)

\* The request arrives with req.user set and req.body = {serviceId, rating}.
\* The handler issues Service.findById(serviceId).
createReview(p, user, serviceId, rating) ==
    /\ Free(p)
    /\ arrived < MaxRequests
    /\ arrived' = arrived + 1
    /\ req' = [req EXCEPT ![p] = [IdleReq EXCEPT !.op = "createReview",
                  !.pc = "cr_findById", !.user = user, !.sid = serviceId,
                  !.rating = rating]]
    /\ UNCHANGED <<services, reviewsDb, nextSid, nextRid, lastStored, features, handler, AuthVars>>

\* await Service.findById(serviceId); 404 when there is no such service,
\* otherwise Review.findOne({userId, serviceId}) is issued.
createReview_findById(p) ==
    /\ req[p].pc = "cr_findById"
    /\ req' = [req EXCEPT ![p] =
                 IF req[p].sid \in DOMAIN services
                 THEN [@ EXCEPT !.pc = "cr_findOne"]
                 ELSE Respond(@, 404)]
    /\ UNCHANGED <<services, reviewsDb, nextSid, nextRid, lastStored, arrived, features, handler, AuthVars>>

createReview_findOne_NoCheck(p) ==
    /\ req[p].pc = "cr_findOne"
    /\ req' = [req EXCEPT ![p] = [@ EXCEPT !.pc = "cr_create"]]
    /\ UNCHANGED <<services, reviewsDb, nextSid, nextRid, lastStored, arrived, features, handler, AuthVars>>

\* await Review.findOne({userId, serviceId}); 400 when the user has one.
createReview_findOne(p) ==
    /\ req[p].pc = "cr_findOne"
    /\ req' = [req EXCEPT ![p] =
                 IF \E r \in reviewsDb : r.userId = req[p].user /\ r.serviceId = req[p].sid
                 THEN Respond(@, 400)
                 ELSE [@ EXCEPT !.pc = "cr_create"]]
    /\ UNCHANGED <<services, reviewsDb, nextSid, nextRid, lastStored, arrived, features, handler, AuthVars>>

\* await Review.create({serviceId, userId, rating, comment})
createReview_create(p) ==
    /\ req[p].pc = "cr_create"
    /\ reviewsDb' = reviewsDb \cup
          {[id |-> nextRid, serviceId |-> req[p].sid, userId |-> req[p].user,
            rating |-> req[p].rating]}
    /\ nextRid' = nextRid + 1
    /\ req' = [req EXCEPT ![p] = [@ EXCEPT !.pc = "cr_push", !.rid = nextRid]]
    /\ lastStored' = [s \in ServiceIds |-> IF s = req[p].sid THEN <<>> ELSE lastStored[s]]
    /\ UNCHANGED <<services, nextSid, arrived, features, handler, AuthVars>>

\* await Service.findByIdAndUpdate(serviceId, {$push: {reviews: review._id}});
\* then updateServiceStats(service._id) is entered.
createReview_push(p) ==
    /\ req[p].pc = "cr_push"
    /\ services' = IF req[p].sid \in DOMAIN services
                   THEN findByIdAndUpdate(services, req[p].sid,
                          [reviews |-> Append(services[req[p].sid].reviews, req[p].rid)])
                   ELSE services
    /\ req' = [req EXCEPT ![p] = [@ EXCEPT !.pc = "uss_aggregate"]]
    /\ UNCHANGED <<reviewsDb, nextSid, nextRid, lastStored, arrived, features, handler, AuthVars>>

-----------------------------------------------------------------------------
(* updateServiceStats (helpers/updateServiceStats.js) *)

\* A direct call of the exported helper, outside any controller.
updateServiceStats(p, serviceId) ==
    /\ Free(p)
    /\ arrived < MaxRequests
    /\ arrived' = arrived + 1
    /\ req' = [req EXCEPT ![p] = [IdleReq EXCEPT !.op = "updateServiceStats",
                  !.pc = "uss_aggregate", !.sid = serviceId]]
    /\ UNCHANGED <<services, reviewsDb, nextSid, nextRid, lastStored, features, handler, AuthVars>>

\* const stats = await Review.aggregate([...])
updateServiceStats_aggregate(p) ==
    /\ req[p].pc = "uss_aggregate"
    /\ req' = [req EXCEPT ![p] =
                 [@ EXCEPT !.pc = "uss_write", !.stats = Aggregate(reviewsDb, req[p].sid)]]
    /\ UNCHANGED <<services, reviewsDb, nextSid, nextRid, lastStored, arrived, features, handler, AuthVars>>

StatsPatchAverageOnly(stats) ==
    IF Len(stats) > 0
    THEN [averageRating |-> stats[1].averageRating]
    ELSE [averageRating |-> Zero, totalReviews |-> 0]

StatsPatchKeepAverage(stats) ==
    IF Len(stats) > 0
    THEN [averageRating |-> stats[1].averageRating, totalReviews |-> stats[1].totalReviews]
    ELSE [totalReviews |-> 0]

\* The patch of the write-back: the aggregate row, or the zero state.
StatsPatch(stats) ==
    IF Len(stats) > 0
    THEN [averageRating |-> stats[1].averageRating, totalReviews |-> stats[1].totalReviews]
    ELSE [averageRating |-> Zero, totalReviews |-> 0]

\* The mutants of the write-back: one that aggregates again when it writes,
\* one that adds the count to the stored count.
WriteBackFresh(coll, db, r) ==
    findByIdAndUpdate(coll, r.sid, StatsPatch(Aggregate(db, r.sid)))

WriteBackAccumulate(coll, db, r) ==
    IF r.sid \in DOMAIN coll
    THEN findByIdAndUpdate(coll, r.sid,
            [averageRating |-> StatsPatch(r.stats).averageRating,
             totalReviews |-> (coll[r.sid].totalReviews + StatsPatch(r.stats).totalReviews) % (MaxRequests + 1)])
    ELSE coll

\* await Service.findByIdAndUpdate(serviceId, {averageRating, totalReviews})
WriteBack(coll, db, r) == findByIdAndUpdate(coll, r.sid, StatsPatch(r.stats))

\* The write-back ends the helper; createReview then answers 201.
updateServiceStats_write(p) ==
    /\ req[p].pc = "uss_write"
    /\ services' = WriteBack(services, reviewsDb, req[p])
    /\ lastStored' = [s \in ServiceIds |->
                        IF s = req[p].sid /\ s \in DOMAIN services
                        THEN << [averageRating |-> services'[s].averageRating,
                                 totalReviews |-> services'[s].totalReviews] >>
                        ELSE lastStored[s]]
    /\ req' = [req EXCEPT ![p] =
                 [Respond(@, IF req[p].op = "createReview" THEN 201 ELSE 0)
                    EXCEPT !.nrecomp = @ + 1]]
    /\ UNCHANGED <<reviewsDb, nextSid, nextRid, arrived, features, handler, AuthVars>>

-----------------------------------------------------------------------------
(* deleteReview (review.controller.js) *)

deleteReview(p, user, reviewId) ==
    /\ Free(p)
    /\ arrived < MaxRequests
    /\ arrived' = arrived + 1
    /\ req' = [req EXCEPT ![p] = [IdleReq EXCEPT !.op = "deleteReview",
                  !.pc = "dr_findById", !.user = user, !.rid = reviewId]]
    /\ UNCHANGED <<services, reviewsDb, nextSid, nextRid, lastStored, features, handler, AuthVars>>

deleteReview_findById_NoAuthorCheck(p) ==
    /\ req[p].pc = "dr_findById"
    /\ LET found == {r \in reviewsDb : r.id = req[p].rid}
       IN req' = [req EXCEPT ![p] =
                    IF found = {} THEN Respond(@, 404)
                    ELSE LET review == CHOOSE r \in found : TRUE
                         IN [@ EXCEPT !.pc = "dr_delete", !.sid = review.serviceId]]
    /\ UNCHANGED <<services, reviewsDb, nextSid, nextRid, lastStored, arrived, features, handler, AuthVars>>

\* await Review.findById(reviewId); 404 when absent, 403 when not the author,
\* otherwise Review.findByIdAndDelete(reviewId) is issued.
deleteReview_findById(p) ==
    /\ req[p].pc = "dr_findById"
    /\ LET found == {r \in reviewsDb : r.id = req[p].rid}
       IN req' = [req EXCEPT ![p] =
                    IF found = {} THEN Respond(@, 404)
                    ELSE LET review == CHOOSE r \in found : TRUE
                         IN IF review.userId # req[p].user THEN Respond(@, 403)
                            ELSE [@ EXCEPT !.pc = "dr_delete", !.sid = review.serviceId]]
    /\ UNCHANGED <<services, reviewsDb, nextSid, nextRid, lastStored, arrived, features, handler, AuthVars>>

\* await Review.findByIdAndDelete(reviewId); then 204 is sent.
deleteReview_delete(p) ==
    /\ req[p].pc = "dr_delete"
    /\ reviewsDb' = {r \in reviewsDb : r.id # req[p].rid}
    /\ lastStored' = [s \in ServiceIds |->
                        IF \E r \in reviewsDb : r.id = req[p].rid /\ r.serviceId = s
                        THEN <<>> ELSE lastStored[s]]
    /\ req' = [req EXCEPT ![p] = Respond(@, 204)]
    /\ UNCHANGED <<services, nextSid, nextRid, arrived, features, handler, AuthVars>>

-----------------------------------------------------------------------------
(* Service controller (service.controller.js), behind protect and          *)
(* restrictTo("service_provider", "admin", "moderator") (service.router.js) *)

\* POST /services: restrictTo, then Service.create is issued.
addService(p, user, price) ==
    /\ Free(p)
    /\ arrived < MaxRequests
    /\ arrived' = arrived + 1
    /\ req' = [req EXCEPT ![p] =
                 IF restrictTo(ProviderRoles, user)
                 THEN [IdleReq EXCEPT !.op = "addService", !.pc = "as_create",
                          !.user = user, !.updates = [price |-> price]]
                 ELSE Respond([IdleReq EXCEPT !.op = "addService", !.user = user], 403)]
    /\ UNCHANGED <<services, reviewsDb, nextSid, nextRid, lastStored, features, handler, AuthVars>>

\* await Service.create({providerID, title, description, price, tags, images})
addService_create(p) ==
    /\ req[p].pc = "as_create"
    /\ services' = (nextSid :> NewService(req[p].user, req[p].updates.price)) @@ services
    /\ nextSid' = nextSid + 1
    /\ req' = [req EXCEPT ![p] = Respond([@ EXCEPT !.sid = nextSid], 201)]
    /\ UNCHANGED <<reviewsDb, nextRid, lastStored, arrived, features, handler, AuthVars>>

allowedFieldsAny == {"price", "providerID", "totalReviews"}

\* const allowedFields = ["title", "description", "price", "tags", "images"]
allowedFields == {"price"}

\* The updates object: the allowed fields that the body defines.
Updates(body) == [k \in DOMAIN body \cap allowedFields |-> body[k]]

\* PATCH /services/:id: restrictTo, then Service.findByIdAndUpdate is issued.
updateService(p, user, id, body) ==
    /\ Free(p)
    /\ arrived < MaxRequests
    /\ arrived' = arrived + 1
    /\ req' = [req EXCEPT ![p] =
                 IF restrictTo(ProviderRoles, user)
                 THEN [IdleReq EXCEPT !.op = "updateService", !.pc = "us_update",
                          !.user = user, !.sid = id, !.updates = Updates(body)]
                 ELSE Respond([IdleReq EXCEPT !.op = "updateService", !.user = user,
                                  !.sid = id], 403)]
    /\ UNCHANGED <<services, reviewsDb, nextSid, nextRid, lastStored, features, handler, AuthVars>>

\* await Service.findByIdAndUpdate(id, updates, {new: true, runValidators: true});
\* 404 when it returns null.
updateService_findByIdAndUpdate(p) ==
    /\ req[p].pc = "us_update"
    /\ services' = findByIdAndUpdate(services, req[p].sid, req[p].updates)
    /\ req' = [req EXCEPT ![p] =
                 Respond(@, IF req[p].sid \in DOMAIN services THEN 200 ELSE 404)]
    /\ UNCHANGED <<reviewsDb, nextSid, nextRid, lastStored, arrived, features, handler, AuthVars>>

\* DELETE /services/:id: restrictTo, then Service.findById is issued.
deleteService(p, user, id) ==
    /\ Free(p)
    /\ arrived < MaxRequests
    /\ arrived' = arrived + 1
    /\ req' = [req EXCEPT ![p] =
                 IF restrictTo(ProviderRoles, user)
                 THEN [IdleReq EXCEPT !.op = "deleteService", !.pc = "ds_findById",
                          !.user = user, !.sid = id]
                 ELSE Respond([IdleReq EXCEPT !.op = "deleteService", !.user = user,
                                  !.sid = id], 403)]
    /\ UNCHANGED <<services, reviewsDb, nextSid, nextRid, lastStored, features, handler, AuthVars>>

deleteService_findById_NoOwnerCheck(p) ==
    /\ req[p].pc = "ds_findById"
    /\ req' = [req EXCEPT ![p] =
                 IF req[p].sid \notin DOMAIN services THEN Respond(@, 404)
                 ELSE [@ EXCEPT !.pc = "ds_delete"]]
    /\ UNCHANGED <<services, reviewsDb, nextSid, nextRid, lastStored, arrived, features, handler, AuthVars>>

\* await Service.findById(id); 404 when absent, 403 when the user is not the
\* provider, otherwise Service.findByIdAndDelete(id) is issued.
deleteService_findById(p) ==
    /\ req[p].pc = "ds_findById"
    /\ req' = [req EXCEPT ![p] =
                 IF req[p].sid \notin DOMAIN services THEN Respond(@, 404)
                 ELSE IF services[req[p].sid].providerID # req[p].user THEN Respond(@, 403)
                 ELSE [@ EXCEPT !.pc = "ds_delete"]]
    /\ UNCHANGED <<services, reviewsDb, nextSid, nextRid, lastStored, arrived, features, handler, AuthVars>>

deleteService_findByIdAndDelete_Cascade(p) ==
    /\ req[p].pc = "ds_delete"
    /\ services' = findByIdAndDelete(services, req[p].sid)
    /\ reviewsDb' = {r \in reviewsDb : r.serviceId # req[p].sid}
    /\ lastStored' = [lastStored EXCEPT ![req[p].sid] = <<>>]
    /\ req' = [req EXCEPT ![p] = Respond(@, 204)]
    /\ UNCHANGED <<nextSid, nextRid, arrived, features, handler, AuthVars>>

\* await Service.findByIdAndDelete(id); then 204 is sent.
deleteService_findByIdAndDelete(p) ==
    /\ req[p].pc = "ds_delete"
    /\ services' = findByIdAndDelete(services, req[p].sid)
    /\ lastStored' = [lastStored EXCEPT ![req[p].sid] = <<>>]
    /\ req' = [req EXCEPT ![p] = Respond(@, 204)]
    /\ UNCHANGED <<reviewsDb, nextSid, nextRid, arrived, features, handler, AuthVars>>

\* The query strings of the list requests.
ListQueries ==
    { <<>>,
      <<Entry(<<"p", "r", "i", "c", "e", "[", "g", "t", "e", "]">>, Str(<<"2", "0">>))>>,
      <<Entry(<<"p", "r", "i", "c", "e">>, Str(<<"1", "0">>))>>,
      <<Entry(K_limit, Str(<<"1">>))>>,
      <<Entry(K_page, Str(<<"2">>)), Entry(K_limit, Str(<<"1">>))>> }

\* GET /services (public): req.query is not read; Service.find() is issued.
getServices(p, query) ==
    /\ Free(p)
    /\ arrived < MaxRequests
    /\ arrived' = arrived + 1
    /\ req' = [req EXCEPT ![p] = [IdleReq EXCEPT !.op = "getServices",
                  !.pc = "gs_find", !.query = query]]
    /\ UNCHANGED <<services, reviewsDb, nextSid, nextRid, lastStored, features, handler, AuthVars>>

\* const services = await Service.find(); 200 with every document.
getServices_find(p) ==
    /\ req[p].pc = "gs_find"
    /\ req' = [req EXCEPT ![p] = Respond([@ EXCEPT !.results = DOMAIN services], 200)]
    /\ UNCHANGED <<services, reviewsDb, nextSid, nextRid, lastStored, arrived, features, handler, AuthVars>>

\* The response has been sent; the slot is free for the next request.
Complete(p) ==
    /\ req[p].pc = "done"
    /\ req' = [req EXCEPT ![p] = IdleReq]
    /\ UNCHANGED <<services, reviewsDb, nextSid, nextRid, lastStored, arrived, features, handler, AuthVars>>

-----------------------------------------------------------------------------
(* Auth controller (auth.controller.js).  A handler that hands an error to *)
(* next, or whose promise rejects under catchAsync, is answered by the     *)
(* global error handler.                                                   *)

\* The variables the auth handlers leave alone.
ShopVars == <<services, reviewsDb, nextSid, nextRid, lastStored, features, handler, wrapped>>

\* The same, and the history of verifyEmail.
RestVars == <<ShopVars, verifiedBy>>

\* next(err): the global error handler sends the response.
Forward(r, err) == Respond(r, Answer(handler.env, err).code)

\* Mongoose rejects a document whose passwordConfirm differs from password.
PasswordsDiffer ==
    LibraryError("ValidationError", <<"User validation failed">>,
                 [NoOwn EXCEPT !.errors = <<"Passwords are not the same">>])

\* The unique index on email rejects a second document with the same email.
DuplicateEmail(email) ==
    LibraryError("MongoServerError", <<"E11000 duplicate key">>,
                 [NoOwn EXCEPT !.code = 11000, !.keyValue = <<<<"email", email>>>>])

\* User.findOne(filter): the id of a matching user, 0 when there is none
findOne(matching) == IF matching = {} THEN 0 ELSE CHOOSE u \in matching : TRUE

\* The plaintext tokens a request can carry: those issued so far, and 0,
\* which was never issued.
KnownTokens == 0..(nextToken - 1)

signupFieldsWithRole == {"email", "password", "passwordConfirm", "role"}

\* const { name, email, password, passwordConfirm, phone } = req.body
\* (name and phone are carried along and read by no handler)
signupFields == {"email", "password", "passwordConfirm"}

\* The properties of the body that the destructuring keeps.
Pick(body, fields) == [f \in DOMAIN body \cap fields |-> body[f]]

\* POST /signup: User.create({name, email, password, passwordConfirm, phone})
\* is issued.
signup(p, body) ==
    /\ Free(p)
    /\ arrived < MaxRequests
    /\ arrived' = arrived + 1
    /\ req' = [req EXCEPT ![p] = [IdleReq EXCEPT !.op = "signup", !.pc = "su_create",
                                                 !.body = Pick(body, signupFields)]]
    /\ UNCHANGED <<RestVars, users, now, nextToken, cookies>>

\* await User.create(...): the validators and the unique index reject, or
\* the user is stored; then createEmailVerification() sets the token fields
\* and newUser.save({validateBeforeSave: false}) is issued.
signup_create(p) ==
    /\ req[p].pc = "su_create"
    /\ LET doc == req[p].body
           id == Cardinality(DOMAIN users) + 1
       IN IF ~passwordConfirmValid(doc)
          THEN /\ req' = [req EXCEPT ![p] = Forward(@, PasswordsDiffer)]
               /\ UNCHANGED <<users, nextToken>>
          ELSE IF \E u \in DOMAIN users : users[u].email = doc.email
          THEN /\ req' = [req EXCEPT ![p] = Forward(@, DuplicateEmail(doc.email))]
               /\ UNCHANGED <<users, nextToken>>
          ELSE /\ users' = (id :> NewUser(doc)) @@ users
               /\ nextToken' = nextToken + 1
               /\ req' = [req EXCEPT ![p] =
                            [@ EXCEPT !.pc = "su_save", !.user = id, !.body = <<>>,
                                      !.updates = createEmailVerification(nextToken, now)]]
    /\ UNCHANGED <<RestVars, now, cookies, arrived>>

\* await newUser.save({validateBeforeSave: false}); the email is sent without
\* being awaited, and the response carries no cookie.
signup_save(p) ==
    /\ req[p].pc = "su_save"
    /\ users' = save(users, req[p].user, req[p].updates)
    /\ req' = [req EXCEPT ![p] = Respond(@, 200)]
    /\ UNCHANGED <<RestVars, now, nextToken, cookies, arrived>>

\* createSendToken(user, statusCode, res): res.cookie("token", ...) and the
\* response
createSendToken(user, jar) == jar \cup {user}

\* POST /login: 400 without email or password, otherwise
\* User.findOne({email}).select("+password") is issued.
login(p, body) ==
    /\ Free(p)
    /\ arrived < MaxRequests
    /\ arrived' = arrived + 1
    /\ req' = [req EXCEPT ![p] =
                 IF {"email", "password"} \subseteq DOMAIN body
                 THEN [IdleReq EXCEPT !.op = "login", !.pc = "lg_findOne", !.body = body]
                 ELSE Forward([IdleReq EXCEPT !.op = "login"],
                              AppError(<<"Please provide email and password">>, 400))]
    /\ UNCHANGED <<RestVars, users, now, nextToken, cookies>>

\* await User.findOne(...): 401 for an unknown email, otherwise the handler
\* holds the document it read and user.correctPassword(password,
\* user.password) is issued.
login_findOne(p) ==
    /\ req[p].pc = "lg_findOne"
    /\ LET user == findOne({u \in DOMAIN users : users[u].email = req[p].body.email})
       IN req' = [req EXCEPT ![p] =
                    IF user = 0
                    THEN Forward(@, AppError(<<"Incorrect email or password">>, 401))
                    ELSE [@ EXCEPT !.pc = "lg_compare", !.user = user, !.doc = users[user]]]
    /\ UNCHANGED <<RestVars, users, now, nextToken, cookies, arrived>>

\* await user.correctPassword(...), on the document that was read: 401 for a
\* wrong password, 400 for an unverified email, otherwise
\* createSendToken(user, 200, res).
login_compare(p) ==
    /\ req[p].pc = "lg_compare"
    /\ IF ~correctPassword(req[p].body.password, req[p].doc.password)
       THEN /\ req' = [req EXCEPT ![p] =
                         Forward([@ EXCEPT !.user = 0],
                                 AppError(<<"Incorrect email or password">>, 401))]
            /\ UNCHANGED cookies
       ELSE IF ~req[p].doc.isEmailVerified
       THEN /\ req' = [req EXCEPT ![p] =
                         Forward(@, AppError(<<"Please verify your email">>, 400))]
            /\ UNCHANGED cookies
       ELSE /\ cookies' = createSendToken(req[p].user, cookies)
            /\ req' = [req EXCEPT ![p] = Respond(@, 200)]
    /\ UNCHANGED <<RestVars, users, now, nextToken, arrived>>

markVerifiedOnly == [isEmailVerified |-> TRUE]

\* user.isEmailVerified = true; user.emailVerificationToken = undefined;
\* user.emailVerificationExpires = undefined
markVerified ==
    [isEmailVerified |-> TRUE, emailVerificationToken |-> Unset,
     emailVerificationExpires |-> Unset]

\* GET /verify-email/:token: User.findOne({emailVerificationToken: hashedToken,
\* emailVerificationExpires: {$gt: Date.now()}}) is issued.
verifyEmail(p, token) ==
    /\ Free(p)
    /\ arrived < MaxRequests
    /\ arrived' = arrived + 1
    /\ req' = [req EXCEPT ![p] = [IdleReq EXCEPT !.op = "verifyEmail", !.pc = "ve_findOne",
                                                 !.body = [token |-> token]]]
    /\ UNCHANGED <<RestVars, users, now, nextToken, cookies>>

\* await User.findOne(...): 400 when no user matches, otherwise the flag is
\* set, the token fields are cleared and user.save() is issued.
verifyEmail_findOne(p) ==
    /\ req[p].pc = "ve_findOne"
    /\ LET hashedToken == sha256(req[p].body.token)
           user == findOne({u \in DOMAIN users :
                       /\ users[u].emailVerificationToken = hashedToken
                       /\ users[u].emailVerificationExpires > now})
       IN req' = [req EXCEPT ![p] =
                    IF user = 0 THEN Respond(@, 400)
                    ELSE [@ EXCEPT !.pc = "ve_save", !.user = user,
                                   !.updates = markVerified]]
    /\ UNCHANGED <<RestVars, users, now, nextToken, cookies, arrived>>

\* await user.save(); res.send(...)
verifyEmail_save(p) ==
    /\ req[p].pc = "ve_save"
    /\ users' = save(users, req[p].user, req[p].updates)
    /\ verifiedBy' = verifiedBy \cup {req[p].body.token}
    /\ req' = [req EXCEPT ![p] = Respond(@, 200)]
    /\ UNCHANGED <<ShopVars, now, nextToken, cookies, arrived>>

clearNothing == <<>>

\* user.passwordResetToken = undefined; user.passwordResetExpires = undefined
clearReset == [passwordResetToken |-> Unset, passwordResetExpires |-> Unset]

\* POST /forgot-password: User.findOne({email}) is issued.
forgotPassword(p, email) ==
    /\ Free(p)
    /\ arrived < MaxRequests
    /\ arrived' = arrived + 1
    /\ req' = [req EXCEPT ![p] = [IdleReq EXCEPT !.op = "forgotPassword", !.pc = "fp_findOne",
                                                 !.body = [email |-> email]]]
    /\ UNCHANGED <<RestVars, users, now, nextToken, cookies>>

\* await User.findOne({email}): 404 when there is no such user, otherwise
\* createPasswordResetToken() sets the reset fields and
\* user.save({validateBeforeSave: false}) is issued.
forgotPassword_findOne(p) ==
    /\ req[p].pc = "fp_findOne"
    /\ LET user == findOne({u \in DOMAIN users : users[u].email = req[p].body.email})
       IN IF user = 0
          THEN /\ req' = [req EXCEPT ![p] =
                            Forward(@, AppError(<<"No user with this email">>, 404))]
               /\ UNCHANGED nextToken
          ELSE /\ nextToken' = nextToken + 1
               /\ req' = [req EXCEPT ![p] =
                            [@ EXCEPT !.pc = "fp_save", !.user = user,
                                      !.updates = createPasswordResetToken(nextToken, now)]]
    /\ UNCHANGED <<RestVars, users, now, cookies, arrived>>

\* await user.save({validateBeforeSave: false}); sendEmail(...) is issued.
forgotPassword_save(p) ==
    /\ req[p].pc = "fp_save"
    /\ users' = save(users, req[p].user, req[p].updates)
    /\ req' = [req EXCEPT ![p] = [@ EXCEPT !.pc = "fp_send", !.updates = <<>>]]
    /\ UNCHANGED <<RestVars, now, nextToken, cookies, arrived>>

\* await sendEmail(...) resolves: 200.
forgotPassword_sent(p) ==
    /\ req[p].pc = "fp_send"
    /\ req' = [req EXCEPT ![p] = Respond(@, 200)]
    /\ UNCHANGED <<RestVars, users, now, nextToken, cookies, arrived>>

\* await sendEmail(...) rejects: the catch block unsets the reset fields and
\* user.save({validateBeforeSave: false}) is issued.
forgotPassword_sendFails(p) ==
    /\ req[p].pc = "fp_send"
    /\ req' = [req EXCEPT ![p] =
                 [@ EXCEPT !.pc = "fp_clear", !.updates = clearReset]]
    /\ UNCHANGED <<RestVars, users, now, nextToken, cookies, arrived>>

\* await user.save({validateBeforeSave: false}) of the catch block; then
\* next(new AppError(..., 500)).
forgotPassword_clear(p) ==
    /\ req[p].pc = "fp_clear"
    /\ users' = save(users, req[p].user, req[p].updates)
    /\ req' = [req EXCEPT ![p] =
                 Forward(@, AppError(<<"There was an error sending the email">>, 500))]
    /\ UNCHANGED <<RestVars, now, nextToken, cookies, arrived>>

\* PATCH /reset-password/:token with {password, passwordConfirm}:
\* User.findOne({passwordResetToken: hashedToken,
\* passwordResetExpires: {$gte: Date.now()}}) is issued.
resetPassword(p, token, body) ==
    /\ Free(p)
    /\ arrived < MaxRequests
    /\ arrived' = arrived + 1
    /\ req' = [req EXCEPT ![p] = [IdleReq EXCEPT !.op = "resetPassword", !.pc = "rp_findOne",
                 !.body = [token |-> token, password |-> body.password,
                           passwordConfirm |-> body.passwordConfirm]]]
    /\ UNCHANGED <<RestVars, users, now, nextToken, cookies>>

\* await User.findOne(...): 400 when no user matches, otherwise the password
\* is set, the reset fields are unset and user.save() is issued.
resetPassword_findOne(p) ==
    /\ req[p].pc = "rp_findOne"
    /\ LET hashedToken == sha256(req[p].body.token)
           user == findOne({u \in DOMAIN users :
                       /\ users[u].passwordResetToken = hashedToken
                       /\ users[u].passwordResetExpires >= now})
       IN req' = [req EXCEPT ![p] =
                    IF user = 0
                    THEN Forward(@, AppError(<<"Token is invalid or has expired">>, 400))
                    ELSE [@ EXCEPT !.pc = "rp_save", !.user = user, !.body = <<>>,
                                   !.updates = [password |-> req[p].body.password,
                                                passwordConfirm |-> req[p].body.passwordConfirm,
                                                passwordResetToken |-> Unset,
                                                passwordResetExpires |-> Unset]]]
    /\ UNCHANGED <<RestVars, users, now, nextToken, cookies, arrived>>

\* await user.save(): the validators reject, or the document is written and
\* createSendToken(user, 200, res) logs the user in.
resetPassword_save(p) ==
    /\ req[p].pc = "rp_save"
    /\ IF ~passwordConfirmValid(req[p].updates)
       THEN /\ req' = [req EXCEPT ![p] = Forward(@, PasswordsDiffer)]
            /\ UNCHANGED <<users, cookies>>
       ELSE /\ users' = save(users, req[p].user, hashPassword(req[p].updates))
            /\ cookies' = createSendToken(req[p].user, cookies)
            /\ req' = [req EXCEPT ![p] = Respond(@, 200)]
    /\ UNCHANGED <<RestVars, now, nextToken, arrived>>

\* PATCH /update-password behind protect, with {currentPassword, newPassword,
\* passwordConfirm}: User.findById(req.user.id).select("+password") is issued.
updatePassword(p, user, body) ==
    /\ Free(p)
    /\ arrived < MaxRequests
    /\ arrived' = arrived + 1
    /\ req' = [req EXCEPT ![p] = [IdleReq EXCEPT !.op = "updatePassword",
                 !.pc = "up_findById", !.user = user, !.body = body]]
    /\ UNCHANGED <<RestVars, users, now, nextToken, cookies>>

\* await User.findById(...): the handler holds the document it read, and
\* user.correctPassword(currentPassword, user.password) is issued.
updatePassword_findById(p) ==
    /\ req[p].pc = "up_findById"
    /\ req' = [req EXCEPT ![p] = [@ EXCEPT !.pc = "up_compare", !.doc = users[req[p].user]]]
    /\ UNCHANGED <<RestVars, users, now, nextToken, cookies, arrived>>

\* await user.correctPassword(...), on the document that was read: 401 for a
\* wrong current password, otherwise the password is set and user.save() is
\* issued.
updatePassword_compare(p) ==
    /\ req[p].pc = "up_compare"
    /\ req' = [req EXCEPT ![p] =
                 IF ~correctPassword(req[p].body.currentPassword, req[p].doc.password)
                 THEN Forward(@, AppError(<<"Your current password is wrong.">>, 401))
                 ELSE [@ EXCEPT !.pc = "up_save", !.body = <<>>, !.doc = <<>>,
                                !.updates = [password |-> req[p].body.newPassword,
                                             passwordConfirm |-> req[p].body.passwordConfirm]]]
    /\ UNCHANGED <<RestVars, users, now, nextToken, cookies, arrived>>

\* await user.save(): the validators reject, or the document is written and
\* createSendToken(user, 200, res) sends a new cookie.
updatePassword_save(p) ==
    /\ req[p].pc = "up_save"
    /\ IF ~passwordConfirmValid(req[p].updates)
       THEN /\ req' = [req EXCEPT ![p] = Forward(@, PasswordsDiffer)]
            /\ UNCHANGED <<users, cookies>>
       ELSE /\ users' = save(users, req[p].user, hashPassword(req[p].updates))
            /\ cookies' = createSendToken(req[p].user, cookies)
            /\ req' = [req EXCEPT ![p] = Respond(@, 200)]
    /\ UNCHANGED <<RestVars, now, nextToken, arrived>>

-----------------------------------------------------------------------------
(* Specifications *)

Bodies == {<<>>} \cup {[price |-> x] : x \in Prices} \cup
          {[price |-> x, providerID |-> u] : x \in Prices, u \in Users} \cup
          {[averageRating |-> Zero, totalReviews |-> 0, reviews |-> <<>>]}

Arrive(p) ==
    \/ \E u \in Users, s \in KnownServiceIds, r \in Ratings : createReview(p, u, s, r)
    \/ \E u \in Users, r \in KnownReviewIds : deleteReview(p, u, r)
    \/ \E s \in KnownServiceIds : updateServiceStats(p, s)
    \/ \E u \in Users, x \in Prices : addService(p, u, x)
    \/ \E u \in Users, s \in KnownServiceIds, b \in Bodies : updateService(p, u, s, b)
    \/ \E u \in Users, s \in KnownServiceIds : deleteService(p, u, s)

Step(p) ==
    \/ createReview_findById(p)
    \/ createReview_findOne(p)
    \/ createReview_create(p)
    \/ createReview_push(p)
    \/ updateServiceStats_aggregate(p)
    \/ updateServiceStats_write(p)
    \/ deleteReview_findById(p)
    \/ deleteReview_delete(p)
    \/ addService_create(p)
    \/ updateService_findByIdAndUpdate(p)
    \/ deleteService_findById(p)
    \/ deleteService_findByIdAndDelete(p)
    \/ Complete(p)

\* Requests interleave at their awaits.
Next == \E p \in Procs : (arrived < MaxRacing /\ Arrive(p)) \/ Step(p)

Spec == Init /\ [][Next]_vars

\* One request at a time: a request arrives only when no other is in flight.
AllIdle == \A q \in Procs : Idle(q)

NextSeq == \E p \in Procs : (AllIdle /\ Arrive(p)) \/ Step(p)

SpecSeq == Init /\ [][NextSeq]_vars

-----------------------------------------------------------------------------
(* The APIFeatures methods on one query string.  Each method is called at  *)
(* most once, in any order; a TypeError thrown by a method ends the chain. *)

MarketVars == <<services, reviewsDb, nextSid, nextRid, req, arrived, lastStored, handler, AuthVars>>

CanCall(method) ==
    features.live /\ features.thrown = "" /\ method \notin features.applied

call_filter == CanCall("filter") /\ features' = filter(features) /\ UNCHANGED MarketVars

call_sort == CanCall("sort") /\ features' = sort(features) /\ UNCHANGED MarketVars

call_limitFields ==
    CanCall("limitFields") /\ features' = limitFields(features) /\ UNCHANGED MarketVars

call_paginate ==
    CanCall("paginate") /\ features' = paginate(features) /\ UNCHANGED MarketVars

InitQuery ==
    /\ services = [s \in {} |-> IdleReq]
    /\ reviewsDb = {}
    /\ nextSid = 1
    /\ nextRid = 1
    /\ req = [p \in Procs |-> IdleReq]
    /\ arrived = 0
    /\ lastStored = [s \in ServiceIds |-> <<>>]
    /\ features \in {NewFeatures(q) : q \in Queries}
    /\ handler = NoHandler
    /\ users = Accounts
    /\ now = 0
    /\ nextToken = 1
    /\ cookies = {}
    /\ wrapped = NoCall
    /\ verifiedBy = {}

NextQuery == call_filter \/ call_sort \/ call_limitFields \/ call_paginate

SpecQuery == InitQuery /\ [][NextQuery]_vars

InitPaging ==
    /\ services = [s \in {} |-> IdleReq]
    /\ reviewsDb = {}
    /\ nextSid = 1
    /\ nextRid = 1
    /\ req = [p \in Procs |-> IdleReq]
    /\ arrived = 0
    /\ lastStored = [s \in ServiceIds |-> <<>>]
    /\ features \in {NewFeatures(q) : q \in PagingQueries}
    /\ handler = NoHandler
    /\ users = Accounts
    /\ now = 0
    /\ nextToken = 1
    /\ cookies = {}
    /\ wrapped = NoCall
    /\ verifiedBy = {}

SpecPaging == InitPaging /\ [][NextQuery]_vars

-----------------------------------------------------------------------------
(* Listing: providers add services while list requests come in. *)

ArriveList(p) ==
    \/ \E u \in Users, x \in Prices : addService(p, u, x)
    \/ \E q \in ListQueries : getServices(p, q)

StepList(p) ==
    \/ addService_create(p)
    \/ getServices_find(p)
    \/ Complete(p)

NextList == \E p \in Procs : ArriveList(p) \/ StepList(p)

SpecList == Init /\ [][NextList]_vars

-----------------------------------------------------------------------------
(* Error handling: an error is handed to next, and the global error        *)
(* handler, the last middleware, answers it.                               *)

\* next(err)
next_err(err) ==
    /\ handler.stage = "idle"
    /\ handler' = [handler EXCEPT !.stage = "raised", !.err = err]
    /\ UNCHANGED <<services, reviewsDb, nextSid, nextRid, req, arrived, lastStored, features, AuthVars>>

globalErrorHandler ==
    /\ handler.stage = "raised"
    /\ handler' = [handler EXCEPT !.stage = "handled",
                                  !.res = Answer(handler.env, handler.err)]
    /\ UNCHANGED <<services, reviewsDb, nextSid, nextRid, req, arrived, lastStored, features, AuthVars>>

InitErrors ==
    /\ services = [s \in {} |-> IdleReq]
    /\ reviewsDb = {}
    /\ nextSid = 1
    /\ nextRid = 1
    /\ req = [p \in Procs |-> IdleReq]
    /\ arrived = 0
    /\ lastStored = [s \in ServiceIds |-> <<>>]
    /\ features = NoFeatures
    /\ handler \in {[NoHandler EXCEPT !.env = e] : e \in Envs}
    /\ users = Accounts
    /\ now = 0
    /\ nextToken = 1
    /\ cookies = {}
    /\ wrapped = NoCall
    /\ verifiedBy = {}

NextErrors == (\E err \in Errors : next_err(err)) \/ globalErrorHandler

SpecErrors == InitErrors /\ [][NextErrors]_vars

-----------------------------------------------------------------------------
(* catchAsync (utils/catchAsync.js): one call of a wrapped controller.  An *)
(* async controller runs to its first await; at each await the awaited     *)
(* promise resolves and the controller runs on, or it rejects and the      *)
(* controller's promise rejects with the same error.  The controller ends  *)
(* by sending the response or by `return next(new AppError(...))`; both    *)
(* resolve its promise.                                                    *)

\* Suspension points of one controller.
MaxAwaits == 3

\* What the rest of the call leaves alone.
CallVars == <<services, reviewsDb, nextSid, nextRid, req, arrived, lastStored, features,
              users, now, nextToken, cookies, verifiedBy>>

catchAsyncThenNext(settled, reason, calls) == Append(calls, <<"catchAsync", reason>>)

\* fn(req, res, next).catch(next): next is called with the reason of a
\* rejection, and not at all when the promise resolves.
catchAsync(settled, reason, calls) ==
    IF settled = "rejected" THEN Append(calls, <<"catchAsync", reason>>) ELSE calls

\* Express runs the error-handling middleware for the error given to next.
Raise(calls) ==
    IF calls = <<>> THEN handler
    ELSE [handler EXCEPT !.stage = "raised", !.err = calls[Len(calls)][2]]

\* The errors an awaited database operation rejects with.
Rejections == CastErrors \cup ValidationErrors \cup DuplicateKeyErrors \cup OtherErrors

\* How the controller goes on when an awaited promise resolved: to its next
\* await, or to its end, with the response or with next(new AppError(...)).
Finishes == {"responds", "next"}

\* The controller has ended in the way `how`, and its promise has resolved.
Resolved(w, how, err) ==
    LET own == IF how = "next" THEN Append(w.nextCalls, <<"controller", err>>)
               ELSE w.nextCalls
    IN [w EXCEPT !.stage = "settled", !.settled = "resolved",
                 !.responses = IF how = "responds" THEN @ + 1 ELSE @,
                 !.nextCalls = catchAsync("resolved", NoError, own)]

\* The wrapped controller is called; a controller without an await ends at once.
wrapped_call(n, how, err) ==
    /\ wrapped.stage = "idle"
    /\ handler.stage = "idle"
    /\ wrapped' = IF n = 0 THEN Resolved([wrapped EXCEPT !.awaits = 0], how, err)
                  ELSE [wrapped EXCEPT !.stage = "running", !.awaits = n, !.at = 1]
    /\ handler' = Raise(wrapped'.nextCalls)
    /\ UNCHANGED CallVars

\* The awaited promise resolves and the controller runs on.
await_resolves(how, err) ==
    /\ wrapped.stage = "running"
    /\ how = "continues" => wrapped.at < wrapped.awaits
    /\ wrapped' = IF how = "continues" THEN [wrapped EXCEPT !.at = @ + 1]
                  ELSE Resolved(wrapped, how, err)
    /\ handler' = Raise(wrapped'.nextCalls)
    /\ UNCHANGED CallVars

\* The awaited promise rejects: so does the controller's promise.
await_rejects(reason) ==
    /\ wrapped.stage = "running"
    /\ wrapped' = [wrapped EXCEPT !.stage = "settled", !.settled = "rejected",
                                  !.nextCalls = catchAsync("rejected", reason, @)]
    /\ handler' = Raise(wrapped'.nextCalls)
    /\ UNCHANGED CallVars

\* app.use(globalErrorHandler): the last middleware answers the error.
wrapped_handled ==
    /\ wrapped.stage = "settled"
    /\ handler.stage = "raised"
    /\ handler' = [handler EXCEPT !.stage = "handled",
                                  !.res = Answer(handler.env, handler.err)]
    /\ UNCHANGED <<CallVars, wrapped>>

NextWrapped ==
    \/ \E n \in 0..MaxAwaits, how \in Finishes, err \in AppErrors : wrapped_call(n, how, err)
    \/ \E how \in Finishes \cup {"continues"}, err \in AppErrors : await_resolves(how, err)
    \/ \E reason \in Rejections : await_rejects(reason)
    \/ wrapped_handled

SpecWrapped == InitErrors /\ [][NextWrapped]_vars

-----------------------------------------------------------------------------
(* Accounts: sign-ups, verifications, logins and password changes, one     *)
(* request at a time, next to the Service routes, which are behind protect *)
(* and take req.user from the token cookie.  The User collection starts    *)
(* with one provider account; the clock jumps between two requests.        *)

\* Jumps of the clock in one run.
MaxTicks == 1

\* The jumps the clock has made to reach t.
Elapsed(t) == t \div EmailTTL + (t % EmailTTL) \div ResetTTL

\* Time passes: ten minutes, or a day.
Tick(d) ==
    /\ AllIdle
    /\ Elapsed(now) < MaxTicks
    /\ now' = now + d
    /\ UNCHANGED <<RestVars, req, arrived, users, nextToken, cookies>>

\* The accounts the User collection starts with.
SeededUsers == {1}

Emails == {"a@services.ge"}

\* The emails a request can name: those of the accounts, and those that sign up.
KnownEmails == Emails \cup {Accounts[u].email : u \in SeededUsers}

SignupBodies ==
    {[email |-> e, password |-> x, passwordConfirm |-> y] :
        e \in Emails, x \in Passwords, y \in Passwords} \cup
    {[email |-> e, password |-> "pw1", passwordConfirm |-> "pw1", role |-> r] :
        e \in Emails, r \in {"service_provider", "admin"}}

LoginBodies ==
    {[email |-> e, password |-> x] : e \in KnownEmails, x \in Passwords} \cup
    {[email |-> e] : e \in Emails}

ResetBodies == {[password |-> x, passwordConfirm |-> y] : x \in Passwords, y \in Passwords}

UpdateBodies ==
    {[currentPassword |-> c, newPassword |-> x, passwordConfirm |-> y] :
        c \in Passwords, x \in Passwords, y \in Passwords}

ArriveAuth(p) ==
    \/ \E b \in SignupBodies : signup(p, b)
    \/ \E b \in LoginBodies : login(p, b)
    \/ \E t \in KnownTokens : verifyEmail(p, t)
    \/ \E e \in KnownEmails : forgotPassword(p, e)
    \/ \E t \in KnownTokens, b \in ResetBodies : resetPassword(p, t, b)
    \/ \E u \in cookies, b \in UpdateBodies : updatePassword(p, u, b)
    \/ \E u \in cookies, x \in Prices : addService(p, u, x)
    \/ \E u \in cookies, s \in KnownServiceIds, b \in Bodies : updateService(p, u, s, b)
    \/ \E u \in cookies, s \in KnownServiceIds : deleteService(p, u, s)

StepAuth(p) ==
    \/ signup_create(p)
    \/ signup_save(p)
    \/ login_findOne(p)
    \/ login_compare(p)
    \/ verifyEmail_findOne(p)
    \/ verifyEmail_save(p)
    \/ forgotPassword_findOne(p)
    \/ forgotPassword_save(p)
    \/ forgotPassword_sent(p)
    \/ forgotPassword_sendFails(p)
    \/ forgotPassword_clear(p)
    \/ resetPassword_findOne(p)
    \/ resetPassword_save(p)
    \/ updatePassword_findById(p)
    \/ updatePassword_compare(p)
    \/ updatePassword_save(p)
    \/ addService_create(p)
    \/ updateService_findByIdAndUpdate(p)
    \/ deleteService_findById(p)
    \/ deleteService_findByIdAndDelete(p)
    \/ Complete(p)

InitAuth ==
    /\ services = [s \in {} |-> IdleReq]
    /\ reviewsDb = {}
    /\ nextSid = 1
    /\ nextRid = 1
    /\ req = [p \in Procs |-> IdleReq]
    /\ arrived = 0
    /\ lastStored = [s \in ServiceIds |-> <<>>]
    /\ features = NoFeatures
    /\ handler = NoHandler
    /\ users = [u \in SeededUsers |-> Accounts[u]]
    /\ now = 0
    /\ nextToken = 1
    /\ cookies = {}
    /\ wrapped = NoCall
    /\ verifiedBy = {}

NextAuth ==
    \/ \E d \in {ResetTTL, EmailTTL} : Tick(d)
    \/ \E p \in Procs : (AllIdle /\ ArriveAuth(p)) \/ StepAuth(p)

SpecAuth == InitAuth /\ [][NextAuth]_vars

-----------------------------------------------------------------------------
(* What the claims speak of *)

ReviewsOf(s) == {r \in reviewsDb : r.serviceId = s}

Stats(doc) == [averageRating |-> doc.averageRating, totalReviews |-> doc.totalReviews]

\* The stored pair of service s is the count and the mean of its reviews, and
\* the zero state when it has none.
StatsCurrent(coll, db, s) ==
    LET m == {r \in db : r.serviceId = s}
    IN /\ coll[s].totalReviews = Cardinality(m)
       /\ coll[s].averageRating.num * Cardinality(m) = coll[s].averageRating.den * SumRatings(m)
       /\ m = {} => coll[s].averageRating = Zero

\* Request p takes a step.
Steps(p) == req'[p] # req[p]

\* Request p is answered in this step.
Answered(p) == req[p].pc # "done" /\ req'[p].pc = "done"

HasReviewed(user, s) == \E r \in reviewsDb : r.userId = user /\ r.serviceId = s

-----------------------------------------------------------------------------
\* C1: in every reachable state, interleaved createReview requests included,
\* there is at most one Review for any (userId, serviceId) pair.
C1_OneReviewPerPair ==
    \A r1, r2 \in reviewsDb :
        (r1.userId = r2.userId /\ r1.serviceId = r2.serviceId) => r1 = r2

\* C2: when deleteReview answers 204, the stored averageRating and
\* totalReviews of the review's service are the mean and the count of the
\* remaining reviews (the zero state when none remains).
C2_DeleteRecomputes ==
    \A p \in Procs :
        (req[p].op = "deleteReview" /\ req[p].pc = "done" /\ req[p].status = 204
            /\ req[p].sid \in DOMAIN services)
        => StatsCurrent(services, reviewsDb, req[p].sid)

\* C3: with one request at a time, a createReview on an existing service by a
\* user without a review of it is not rejected; when it answers 201 it has
\* run exactly one recomputation and the stored totalReviews and
\* averageRating are the count and the mean of the service's reviews.
C3_Answered201 ==
    \A p \in Procs :
        (req[p].op = "createReview" /\ req[p].pc = "done" /\ req[p].status = 201)
        => /\ req[p].nrecomp = 1
           /\ req[p].sid \in DOMAIN services
           /\ StatsCurrent(services, reviewsDb, req[p].sid)

C3_NotRejected ==
    \A p \in Procs :
        (req[p].op = "createReview" /\ Answered(p)
            /\ req[p].sid \in DOMAIN services /\ ~HasReviewed(req[p].user, req[p].sid))
        => req'[p].status = 201

C3_FirstReviewCreated == []C3_Answered201 /\ [][C3_NotRejected]_vars

C3_Witness ==
    \E p \in Procs :
        /\ req[p].op = "createReview" /\ req[p].pc = "done" /\ req[p].status = 201
        /\ req[p].sid \in DOMAIN services
        /\ services[req[p].sid].totalReviews = 2
        /\ services[req[p].sid].averageRating = [num |-> 9, den |-> 2]

\* C4: a createReview whose user already has a Review of the service is
\* answered 400, one for a service that does not exist 404; no step of a
\* request that is rejected so changes the Review collection or any Service,
\* and it runs no recomputation.
C4_Rejects(p) ==
    /\ (req[p].pc = "cr_findById" /\ Steps(p) /\ req[p].sid \notin DOMAIN services)
        => (req'[p].pc = "done" /\ req'[p].status = 404)
    /\ (req[p].pc = "cr_findOne" /\ Steps(p) /\ HasReviewed(req[p].user, req[p].sid))
        => (req'[p].pc = "done" /\ req'[p].status = 400)

C4_NoEffect(p) ==
    (Steps(p) /\ req'[p].op = "createReview"
        /\ (req'[p].pc \in {"cr_findById", "cr_findOne"} \/ req'[p].status \in {400, 404}))
    => (UNCHANGED <<services, reviewsDb>> /\ req'[p].nrecomp = 0)

C4_DuplicateRejected == [][\A p \in Procs : C4_Rejects(p) /\ C4_NoEffect(p)]_vars

C4_Witness ==
    \E p \in Procs :
        /\ req[p].op = "createReview" /\ req[p].pc = "done" /\ req[p].status = 400
        /\ HasReviewed(req[p].user, 1)
        /\ Cardinality(reviewsDb) = 1
        /\ 1 \in DOMAIN services /\ services[1].totalReviews = 1

\* C5: in every reachable state every Service with totalReviews = 0 has
\* averageRating = 0.
C5_ZeroReviewsZeroRating ==
    \A s \in DOMAIN services :
        services[s].totalReviews = 0 => services[s].averageRating = Zero

\* A recomputation found no review and wrote the zero state to a service that
\* has had a review.
C5_Witness ==
    \E s \in DOMAIN services :
        /\ services[s].totalReviews = 0
        /\ Len(services[s].reviews) > 0
        /\ lastStored[s] = << [averageRating |-> Zero, totalReviews |-> 0] >>

\* C6: with one request at a time, the write-back of updateServiceStats
\* leaves the service with totalReviews = the number of its reviews and
\* averageRating = their mean, and with 0 and 0 when it has none, whatever
\* was stored before.
C6_WriteBack(p) ==
    (req[p].pc = "uss_write" /\ Steps(p) /\ req[p].sid \in DOMAIN services)
    => /\ req[p].sid \in DOMAIN services'
       /\ StatsCurrent(services', reviewsDb', req[p].sid)
       /\ (ReviewsOf(req[p].sid) = {} =>
             Stats(services'[req[p].sid]) = [averageRating |-> Zero, totalReviews |-> 0])

C6_RecomputeWritesMeanAndCount == [][\A p \in Procs : C6_WriteBack(p)]_vars

\* Ratings 4, 5, 3 stored as averageRating 4, totalReviews 3.
C6_Witness ==
    \E s \in DOMAIN services :
        /\ {r.rating : r \in ReviewsOf(s)} = {3, 4, 5}
        /\ Cardinality(ReviewsOf(s)) = 3
        /\ Stats(services[s]) = [averageRating |-> [num |-> 4, den |-> 1], totalReviews |-> 3]

\* C7: the stored statistics of a service change only by a write-back, and a
\* write-back stores the aggregate its own request read, whatever happened to
\* the reviews since; so the last write-back decides the stored values.
C7_LastWrite(s) ==
    Stats(services'[s]) # Stats(services[s])
    => \E p \in Procs :
          /\ req[p].pc = "uss_write" /\ Steps(p) /\ req[p].sid = s
          /\ Stats(services'[s]) = StatsPatch(req[p].stats)

C7_OwnRead(p) ==
    (req[p].pc = "uss_write" /\ Steps(p) /\ req[p].sid \in DOMAIN services)
    => Stats(services'[req[p].sid]) = StatsPatch(req[p].stats)

C7_LastWriterWins ==
    [][ /\ \A s \in DOMAIN services \cap DOMAIN services' : C7_LastWrite(s)
        /\ \A p \in Procs : C7_OwnRead(p) ]_vars

\* Two createReview requests on one service have both answered 201 and the
\* stored totalReviews is not the number of its reviews.
C7_Witness ==
    /\ \A p \in Procs :
          req[p].op = "createReview" /\ req[p].pc = "done" /\ req[p].status = 201
    /\ \E s \in DOMAIN services :
          /\ \A p \in Procs : req[p].sid = s
          /\ Cardinality(ReviewsOf(s)) = 2
          /\ services[s].totalReviews = 1

\* C8: with one request at a time, a recomputation of a service whose
\* reviews are as they were at the last recomputation leaves averageRating
\* and totalReviews as that recomputation stored them.
C8_Reinvoked(p) ==
    (req[p].pc = "uss_write" /\ Steps(p) /\ req[p].sid \in DOMAIN services
        /\ lastStored[req[p].sid] # <<>>)
    => /\ Stats(services'[req[p].sid]) = lastStored[req[p].sid][1]
       /\ Stats(services'[req[p].sid]) = Stats(services[req[p].sid])

C8_RecomputeIdempotent == [][\A p \in Procs : C8_Reinvoked(p)]_vars

\* addService, createReview (which recomputes), then updateServiceStats again.
C8_Witness ==
    /\ arrived = 3
    /\ \E p \in Procs :
          /\ req[p].op = "updateServiceStats" /\ req[p].pc = "done" /\ req[p].nrecomp = 1
          /\ req[p].sid \in DOMAIN services
          /\ Cardinality(ReviewsOf(req[p].sid)) = 1
          /\ services[req[p].sid].totalReviews = 1
    /\ nextRid = 2

\* C9: an updateService request of a user who is not the service's provider
\* never changes the Service document.
C9_UpdateOnlyByOwner ==
    [][\A p \in Procs :
          (req[p].pc = "us_update" /\ Steps(p) /\ req[p].sid \in DOMAIN services
              /\ services[req[p].sid].providerID # req[p].user)
          => services' = services]_vars

\* C10: a deleteService request of a user who is not the service's provider
\* is answered 403 and removes nothing; a Service leaves the collection only
\* by the findByIdAndDelete of a deleteService request of its provider.
C10_NonOwner(p) ==
    /\ (req[p].pc = "ds_findById" /\ Steps(p) /\ req[p].sid \in DOMAIN services
           /\ services[req[p].sid].providerID # req[p].user)
        => (req'[p].pc = "done" /\ req'[p].status = 403 /\ services' = services)
    /\ (Steps(p) /\ req'[p].op = "deleteService" /\ req'[p].status = 403)
        => services' = services

C10_Removed(s) ==
    \E p \in Procs :
        /\ req[p].op = "deleteService" /\ req[p].pc = "ds_delete" /\ Steps(p)
        /\ req[p].sid = s
        /\ req[p].user = services[s].providerID
        /\ req'[p].status = 204

C10_DeleteOnlyByOwner ==
    [][ /\ \A p \in Procs : C10_NonOwner(p)
        /\ \A s \in DOMAIN services \ DOMAIN services' : C10_Removed(s) ]_vars

\* A provider who does not own the service was answered 403; it still exists.
C10_Witness ==
    \E p \in Procs :
        /\ req[p].op = "deleteService" /\ req[p].pc = "done" /\ req[p].status = 403
        /\ restrictTo(ProviderRoles, req[p].user)
        /\ \E s \in DOMAIN services : services[s].providerID # req[p].user

\* C11: a deleteReview request of a user who is not the review's author is
\* answered 403 and removes nothing; a Review leaves the collection only by
\* the findByIdAndDelete of a deleteReview request of its author.
C11_NonAuthor(p) ==
    (req[p].pc = "dr_findById" /\ Steps(p)
        /\ \E r \in reviewsDb : r.id = req[p].rid /\ r.userId # req[p].user)
    => (req'[p].pc = "done" /\ req'[p].status = 403 /\ reviewsDb' = reviewsDb)

C11_Removed(r) ==
    \E p \in Procs :
        /\ req[p].op = "deleteReview" /\ req[p].pc = "dr_delete" /\ Steps(p)
        /\ req[p].rid = r.id
        /\ req[p].user = r.userId
        /\ req'[p].status = 204

C11_DeleteOnlyByAuthor ==
    [][ /\ \A p \in Procs : C11_NonAuthor(p)
        /\ \A r \in reviewsDb \ reviewsDb' : C11_Removed(r) ]_vars

\* Somebody else's deleteReview was answered 403; the review still exists.
C11_Witness ==
    \E p \in Procs :
        /\ req[p].op = "deleteReview" /\ req[p].pc = "done" /\ req[p].status = 403
        /\ reviewsDb # {}
        /\ \A r \in reviewsDb : r.userId # req[p].user

\* C12: no step of a deleteService request changes the Review collection or
\* any Service other than the one it names, so the reviews of a deleted
\* service stay, with a serviceId that names no Service.
C12_OnlyTheService(p) ==
    (Steps(p) /\ req'[p].op = "deleteService")
    => /\ reviewsDb' = reviewsDb
       /\ \A s \in DOMAIN services :
             s \in DOMAIN services' \/ (req[p].pc = "ds_delete" /\ s = req[p].sid)
       /\ \A s \in DOMAIN services \cap DOMAIN services' : services'[s] = services[s]
       /\ DOMAIN services' \subseteq DOMAIN services

C12_ReviewsSurviveDeleteService == [][\A p \in Procs : C12_OnlyTheService(p)]_vars

\* deleteService answered 204 and a review of the deleted service is left.
C12_Witness ==
    \E p \in Procs :
        /\ req[p].op = "deleteService" /\ req[p].pc = "done" /\ req[p].status = 204
        /\ req[p].sid \notin DOMAIN services
        /\ \E r \in reviewsDb : r.serviceId = req[p].sid

-----------------------------------------------------------------------------
(* APIFeatures claims *)

PageParam == Get(features.queryString, K_page)
LimitParam == Get(features.queryString, K_limit)
TagsParam == Get(features.queryString, K_tags)

\* The integer x against the number v: -1 when x < v, 0 when x = v, 1 when
\* x > v.  A number with e > 0 or with inf set is beyond every integer here,
\* and a number other than 0 of base 2 or with e below -9 is between 0 and
\* the integers next to it.
Against(x, v) ==
    IF v.inf \/ v.e > 0 THEN (IF v.n > 0 THEN -1 ELSE 1)
    ELSE IF v.base = 2 \/ v.e < -9
    THEN (IF x > 0 \/ (x = 0 /\ v.n < 0) THEN 1 ELSE -1)
    ELSE LET scaled == x * Pow10(0 - v.e)
         IN IF scaled < v.n THEN -1 ELSE IF scaled = v.n THEN 0 ELSE 1

\* Does the number x satisfy the predicate of a field of the filter
Holds(x, predicate) ==
    CASE predicate.t = "number" -> Against(x, predicate) = 0
      [] predicate.t = "object" ->
            \A o \in DOMAIN predicate.props :
                /\ predicate.props[o].t = "number"
                /\ CASE o = <<"$", "g", "t", "e">> -> Against(x, predicate.props[o]) >= 0
                     [] o = <<"$", "g", "t">> -> Against(x, predicate.props[o]) > 0
                     [] o = <<"$", "l", "t", "e">> -> Against(x, predicate.props[o]) <= 0
                     [] o = <<"$", "l", "t">> -> Against(x, predicate.props[o]) < 0
                     [] OTHER -> FALSE
      [] OTHER -> FALSE

\* Does the Service document satisfy the filter (its price predicate)
Satisfies(doc, mongoQuery) ==
    \A field \in DOMAIN mongoQuery : field = <<"p", "r", "i", "c", "e">> /\ Holds(doc.price, mongoQuery[field])

\* C13: the response of getServices holds only services that satisfy the
\* filter that APIFeatures builds from the request's query parameters, and at
\* most `limit` of them.
C13_ListIsFilteredAndPaged ==
    \A p \in Procs :
        (req[p].op = "getServices" /\ req[p].pc = "done") =>
            /\ \A s \in req[p].results \cap DOMAIN services :
                  Satisfies(services[s], filter(NewFeatures(req[p].query)).find)
            /\ Cardinality(req[p].results) <= paginate(NewFeatures(req[p].query)).limit

\* C14: for every query string, after paginate() the limit it passes on is
\* at least 1 and the skip it passes on is at least 0 (the page is at least
\* 1): a missing, non-numeric, zero or negative page or limit is replaced by
\* the default.
C14_PageAndLimitAtLeastOne ==
    "paginate" \in features.applied => (features.limit >= 1 /\ features.skip >= 0)

\* A decimal integer written out in full, after white space or none, and its
\* value.
Written(v) == TrimStart(v.s[1])

IntString(v) ==
    /\ v.t = "string"
    /\ Unsigned(Written(v)) # <<>>
    /\ \A i \in 1..Len(Unsigned(Written(v))) : IsDigit(Unsigned(Written(v))[i])

IntValue(v) == Sign(Written(v)) * DigitsValue(Unsigned(Written(v)))

\* The parameter is absent, or an integer other than zero.
AbsentOrInteger(v) == v = Undefined \/ (IntString(v) /\ IntValue(v) # 0)

ValueOr(v, default) == IF v = Undefined THEN default ELSE IntValue(v)

\* C15: paginate() applies skip = (page - 1) * limit and limit = limit for
\* the integer values of the page and limit parameters, page 1 and limit 100
\* standing in for an absent one: skip 0 and limit 100 with neither given,
\* skip 10 and limit 10 with page=2 and limit=10.
C15_SkipAndLimit ==
    ("paginate" \in features.applied /\ AbsentOrInteger(PageParam)
        /\ AbsentOrInteger(LimitParam))
    => /\ features.skip = (ValueOr(PageParam, 1) - 1) * ValueOr(LimitParam, 100)
       /\ features.limit = ValueOr(LimitParam, 100)

C15_Witness ==
    /\ "paginate" \in features.applied
    /\ PageParam = Str(<<"2">>)
    /\ LimitParam = Str(<<"1", "0">>)
    /\ features.skip = 10
    /\ features.limit = 10

\* C16: filter(), sort(), limitFields() and paginate() never raise an error,
\* whatever the page, limit, sort, fields and tags parameters are: absent, a
\* malformed string, or a string array.
C16_NeverThrows == features.thrown = ""

FilterEntries == Filters(features.queryString)

\* The filter after the first k entries of the loop.
FindAfter(k) == FilterLoop(EmptyObject, SubSeq(FilterEntries, 1, k)).own

\* A string that is a number for JavaScript: white space around a numeric
\* literal (decimal with an optional fraction and exponent, hexadecimal,
\* octal, binary, or Infinity), or white space alone, which is 0.
ParsesAsNumber(v) == v.t = "string" /\ StringToNumber(v.s[1]) # NaN

NumberValue(v) == StringToNumber(v.s[1])

\* The value a predicate carries for the parameter value v.
Coerced(v) == IF ParsesAsNumber(v) THEN NumberValue(v) ELSE v

IsRangeKey(key) == KeyMatch(key) # {}
FieldOf(key) == MatchField(key, CHOOSE o \in KeyMatch(key) : TRUE)
OperatorOf(key) == <<"$">> \o (CHOOSE o \in KeyMatch(key) : TRUE)

Carries(mongoQuery, field, operator, value) ==
    /\ field \in DOMAIN mongoQuery
    /\ mongoQuery[field].t = "object"
    /\ operator \in DOMAIN mongoQuery[field].props
    /\ mongoQuery[field].props[operator] = value

\* The round of the loop for the range key at position k sets its operator
\* and keeps every property the field's predicate had.
C17_RoundKeeps(k) ==
    LET e == FilterEntries[k]
    IN IsRangeKey(e.key) =>
        /\ Carries(FindAfter(k), FieldOf(e.key), OperatorOf(e.key), Coerced(e.value))
        /\ (FieldOf(e.key) \in DOMAIN FindAfter(k - 1)
                /\ FindAfter(k - 1)[FieldOf(e.key)].t = "object")
           => \A o \in DOMAIN FindAfter(k - 1)[FieldOf(e.key)].props \ {OperatorOf(e.key)} :
                 Carries(FindAfter(k), FieldOf(e.key), o,
                         FindAfter(k - 1)[FieldOf(e.key)].props[o])

\* A bare key for the field of the range key at position k comes after it.
BareKeyAfter(k) ==
    \E j \in (k + 1)..Len(FilterEntries) :
        FilterEntries[j].key = FieldOf(FilterEntries[k].key)

\* C17 as stated: the output of filter() carries, for every range key
\* <field>[<op>] of the query string, $<op> with the coerced value on the
\* field's predicate, whatever else names the field.
C17_OutputCarriesEveryOperator ==
    "filter" \in features.applied =>
        \A k \in 1..Len(FilterEntries) :
            IsRangeKey(FilterEntries[k].key) =>
                Carries(features.find, FieldOf(FilterEntries[k].key),
                        OperatorOf(FilterEntries[k].key), Coerced(FilterEntries[k].value))

\* What holds of the range keys: every range key <field>[<op>] sets $<op>,
\* with the coerced value, on the field's predicate without removing an
\* operator already set, and the output of filter() carries the operator
\* unless a bare key for the same field comes after the range key.
C17_RangeOperatorsMerge ==
    "filter" \in features.applied =>
        \A k \in 1..Len(FilterEntries) :
            /\ C17_RoundKeeps(k)
            /\ (IsRangeKey(FilterEntries[k].key) /\ ~BareKeyAfter(k))
               => Carries(features.find, FieldOf(FilterEntries[k].key),
                          OperatorOf(FilterEntries[k].key),
                          Coerced(FilterEntries[k].value))

C17_Witness ==
    /\ "filter" \in features.applied
    /\ Has(features.queryString, <<"p", "r", "i", "c", "e", "[", "g", "t", "e", "]">>)
    /\ Has(features.queryString, <<"p", "r", "i", "c", "e", "[", "l", "t", "e", "]">>)
    /\ Carries(features.find, <<"p", "r", "i", "c", "e">>, <<"$", "g", "t", "e">>, Num(20))
    /\ Carries(features.find, <<"p", "r", "i", "c", "e">>, <<"$", "l", "t", "e">>, Num(1000))

NoReservedKeys == \A i \in 1..Len(features.queryString) :
                      features.queryString[i].key \notin ReservedKeys

\* The string form of a number: the digits of an integer, or those of an
\* integer and of a fraction around a point, after "-" or not.
Numeral(v) == IF v.s[1] # <<>> /\ v.s[1][1] = "-" THEN Tail(v.s[1]) ELSE v.s[1]

IsNumeral(v) ==
    /\ v.t = "string"
    /\ Numeral(v) # <<>>
    /\ \A i \in 1..Len(Numeral(v)) :
          \/ IsDigit(Numeral(v)[i])
          \/ /\ Numeral(v)[i] = "."
             /\ 1 < i /\ i < Len(Numeral(v))
             /\ \A j \in 1..Len(Numeral(v)) : Numeral(v)[j] = "." => j = i

\* The digits of a numeral, and how many of them come after the point
NumeralDigits(v) == SelectSeq(Numeral(v), IsDigit)
FractionLength(v) ==
    IF \E i \in 1..Len(Numeral(v)) : Numeral(v)[i] = "."
    THEN Len(Numeral(v)) - (CHOOSE i \in 1..Len(Numeral(v)) : Numeral(v)[i] = ".")
    ELSE 0

\* x is the number that the numeral v writes: x * 10^(digits after the
\* point) is the integer of the digits of v, with its sign
IsTheNumber(x, v) ==
    /\ x.t = "number" /\ ~x.inf /\ x.base = 10
    /\ x.e + FractionLength(v) >= 0
    /\ x.n * Pow10(x.e + FractionLength(v))
          = (IF v.s[1][1] = "-" THEN -1 ELSE 1) * DigitsValue(NumeralDigits(v))

\* A string that writes no number, however a number may be written: it has
\* no digit and is not the word Infinity
WritesNoNumber(v) ==
    /\ v.t = "string"
    /\ \A i \in 1..Len(v.s[1]) : ~IsDigit(v.s[1][i])
    /\ Unsigned(Trim(v.s[1])) # InfinityWord

\* C18: for every query string without reserved keys, the output of filter()
\* has for each bare key an equality predicate: the number, in numeric type
\* and never the string, when the value is the string form of a number, and
\* the original string when the value does not parse as a number.
C18_BareKeysCoerced ==
    ("filter" \in features.applied /\ NoReservedKeys) =>
        \A k \in 1..Len(features.queryString) :
            LET e == features.queryString[k]
            IN ~IsRangeKey(e.key) =>
                /\ e.key \in DOMAIN features.find
                /\ features.find[e.key].t = "number" \/ features.find[e.key] = e.value
                /\ IsNumeral(e.value) => IsTheNumber(features.find[e.key], e.value)
                /\ WritesNoNumber(e.value) => features.find[e.key] = e.value

\* The pieces of a string between its commas.
Pieces(chars) ==
    {SubSeq(chars, ij[1], ij[2]) :
        ij \in {x \in (1..(Len(chars) + 1)) \X (0..Len(chars)) :
                  /\ x[1] <= x[2] + 1
                  /\ (x[1] = 1 \/ chars[x[1] - 1] = ",")
                  /\ (x[2] = Len(chars) \/ chars[x[2] + 1] = ",")
                  /\ \A k \in x[1]..x[2] : chars[k] # ","}}

\* The tokens of a tags string: its pieces, trimmed, less the empty one.
Tokens(chars) == {Trim(piece) : piece \in Pieces(chars)} \ {<<>>}

Elements(array) == {array.s[i] : i \in 1..Len(array.s)}

\* C19: for a tags string, filter() splits it on commas, trims the tokens and
\* drops the empty ones; when a token remains the filter's tags predicate is
\* {$all: tokens}, the tokens as a set being exactly those of the string, and
\* when none remains the filter has no tags predicate.
C19_TagsAll ==
    ("filter" \in features.applied /\ TagsParam.t = "string") =>
        IF Tokens(TagsParam.s[1]) = {}
        THEN K_tags \notin DOMAIN features.find
        ELSE /\ K_tags \in DOMAIN features.find
             /\ features.find[K_tags].t = "object"
             /\ DOMAIN features.find[K_tags].props = {K_all}
             /\ features.find[K_tags].props[K_all].t = "array"
             /\ Elements(features.find[K_tags].props[K_all]) = Tokens(TagsParam.s[1])

C19_Witness ==
    /\ "filter" \in features.applied
    /\ TagsParam = Str(<<"a", ",", " ", "b", " ", ",", "b">>)
    /\ Elements(features.find[K_tags].props[K_all]) = {<<"a">>, <<"b">>}

C19_WitnessNone ==
    /\ "filter" \in features.applied
    /\ TagsParam = Str(<<" ", ",", " ">>)
    /\ K_tags \notin DOMAIN features.find

\* C20: in production mode the global error handler answers an operational
\* error (an AppError, or a cast, validation, duplicate-key or JWT error it
\* converts) with that error's status code and message, and every other
\* error with 500 and the fixed message, never the original message; the
\* stack and the raw error are in the response in development mode only.
C20_ErrorResponses ==
    handler.stage = "handled" =>
        /\ (handler.env = "prod" /\ handler.err \in AppErrors)
           => /\ handler.res.code = handler.err.own.statusCode
              /\ handler.res.message = handler.err.message
        /\ (handler.env = "prod" /\ handler.err \in CastErrors \cup ValidationErrors
                                        \cup DuplicateKeyErrors \cup JWTErrors)
           => /\ handler.res.code = Converted(handler.err).own.statusCode
              /\ handler.res.message = Converted(handler.err).message
        /\ (handler.env = "prod" /\ handler.err \in OtherErrors)
           => /\ handler.res.code = 500
              /\ handler.res.message = GenericMessage
        /\ handler.env = "prod" => (handler.res.stack = <<>> /\ ~handler.res.error)
        /\ handler.env = "dev" => (handler.res.stack = handler.err.stack /\ handler.res.error)

-----------------------------------------------------------------------------
\* C24: whatever the request body holds, the findByIdAndUpdate of
\* updateService leaves the providerID, averageRating, totalReviews and
\* reviews of every Service as they were, changes no Service but the one
\* addressed, and changes no Review.
C24_Frame(p) ==
    (req[p].pc = "us_update" /\ Steps(p)) =>
        /\ reviewsDb' = reviewsDb
        /\ DOMAIN services' = DOMAIN services
        /\ \A s \in DOMAIN services :
              /\ s # req[p].sid => services'[s] = services[s]
              /\ services'[s].providerID = services[s].providerID
              /\ services'[s].averageRating = services[s].averageRating
              /\ services'[s].totalReviews = services[s].totalReviews
              /\ services'[s].reviews = services[s].reviews

C24_UpdateTouchesAllowedFieldsOnly == [][\A p \in Procs : C24_Frame(p)]_vars

C24_Witness ==
    \E p \in Procs :
        /\ req[p].op = "updateService"
        /\ req[p].pc = "done"
        /\ req[p].status = 200
        /\ req[p].sid \in DOMAIN services
        /\ services[req[p].sid].totalReviews = 1
        /\ Len(services[req[p].sid].reviews) = 1
        /\ services[req[p].sid].price = 20

\* C27: whatever NODE_ENV is, the global error handler has sent a response
\* when it returns.
C27_AlwaysAnswers == handler.stage = "handled" => handler.res.sent

Completed == \A p \in Procs : req[p].pc \in {"idle", "done"}

ListedIds(s) == {services[s].reviews[i] : i \in 1..Len(services[s].reviews)}

\* C28: once the createReview and deleteReview requests have completed, the
\* reviews list of every Service holds exactly the ids of the Reviews of that
\* service, each once.
C28_ReviewsListMatches ==
    Completed =>
        \A s \in DOMAIN services :
            /\ ListedIds(s) = {r.id : r \in ReviewsOf(s)}
            /\ Len(services[s].reviews) = Cardinality(ListedIds(s))

Orderings(n) == {f \in [1..n -> 1..n] : \A i, j \in 1..n : f[i] = f[j] => i = j}

Reordered(q, f) == [i \in 1..Len(q) |-> q[f[i]]]

\* C29: the filter that filter() builds is the same for every order of the
\* parameters of the query string.
C29_OrderIndependent ==
    "filter" \in features.applied =>
        \A f \in Orderings(Len(features.queryString)) :
            filter(NewFeatures(Reordered(features.queryString, f))).find = features.find

-----------------------------------------------------------------------------
(* catchAsync claims *)

\* The calls of next that the wrapper made.
ByWrapper(calls) == {i \in 1..Len(calls) : calls[i][1] = "catchAsync"}

C21_Settled ==
    /\ wrapped.settled = "rejected" =>
          /\ Cardinality(ByWrapper(wrapped.nextCalls)) = 1
          /\ Len(wrapped.nextCalls) = 1
          /\ handler.stage \in {"raised", "handled"}
          /\ handler.err = wrapped.nextCalls[1][2]
    /\ wrapped.settled = "resolved" => ByWrapper(wrapped.nextCalls) = {}

C21_NoResponseAfter ==
    wrapped.settled = "rejected" =>
        /\ wrapped'.responses = wrapped.responses
        /\ wrapped'.nextCalls = wrapped.nextCalls

\* C21: when the promise of a controller wrapped by catchAsync rejects at one
\* of its suspension points, the error is passed to next exactly once and
\* reaches the global error handler, and the controller sends no response
\* after that point; when the promise resolves, the wrapper does not call next.
C21_RejectionsReachHandlerOnce == []C21_Settled /\ [][C21_NoResponseAfter]_vars

C21_Witness ==
    /\ wrapped.settled = "rejected"
    /\ wrapped.awaits = 3
    /\ wrapped.at = 2
    /\ handler.stage = "handled"
    /\ handler.err \in ValidationErrors

-----------------------------------------------------------------------------
(* Account claims *)

\* The users whose email verification token is t and has not expired.
EmailTokenHolders(t) ==
    {u \in DOMAIN users : /\ users[u].emailVerificationToken = sha256(t)
                          /\ users[u].emailVerificationExpires > now}

\* The users for whom resetPassword accepts the token t.
ResetTokenHolders(coll, t) ==
    {u \in DOMAIN coll : /\ coll[u].passwordResetToken = sha256(t)
                         /\ coll[u].passwordResetExpires >= now}

\* The users made by signup.
SignedUp == DOMAIN users \ SeededUsers

C22_Signup(p) ==
    (req[p].pc = "su_create" /\ Steps(p)) =>
        \A u \in DOMAIN users' \ DOMAIN users : ~users'[u].isEmailVerified

C22_Lookup(p) ==
    (req[p].pc = "ve_findOne" /\ Steps(p)) =>
        LET t == req[p].body.token
        IN /\ users' = users
           /\ IF EmailTokenHolders(t) = {} \/ t \in verifiedBy
              THEN req'[p].pc = "done" /\ req'[p].status = 400
              ELSE req'[p].pc = "ve_save" /\ req'[p].user \in EmailTokenHolders(t)

C22_Save(p) ==
    (req[p].pc = "ve_save" /\ Steps(p)) =>
        LET u == req[p].user
        IN /\ req'[p].status = 200
           /\ users'[u].isEmailVerified
           /\ users'[u].emailVerificationToken = Unset
           /\ users'[u].emailVerificationExpires = Unset
           /\ \A v \in DOMAIN users : v # u => users'[v] = users[v]

\* C22: signup creates the user with isEmailVerified = false; verifyEmail
\* with the token issued at signup, before its expiry, sets isEmailVerified
\* and clears emailVerificationToken and emailVerificationExpires; a later
\* verifyEmail with the same token is answered 400; verifyEmail with an
\* unknown or expired token is answered 400 and changes no user.
C22_VerificationLifecycle ==
    [][\A p \in Procs : C22_Signup(p) /\ C22_Lookup(p) /\ C22_Save(p)]_vars

\* A second verifyEmail carries the token that verified the user.
C22_Witness ==
    \E p \in Procs, u \in SignedUp :
        /\ req[p].pc = "ve_findOne"
        /\ req[p].body.token \in verifiedBy
        /\ users[u].isEmailVerified
        /\ users[u].emailVerificationToken = Unset

C23_Cleared(p) ==
    (req[p].pc \in {"rp_save", "up_save"} /\ Steps(p) /\ req'[p].status = 200) =>
        LET u == req[p].user
        IN /\ users'[u].passwordResetToken = Unset
           /\ users'[u].passwordResetExpires = Unset
           /\ \A t \in KnownTokens : u \notin ResetTokenHolders(users', t)

\* C23: when resetPassword or updatePassword succeeds, the user's
\* passwordResetToken and passwordResetExpires are cleared, so that
\* resetPassword accepts no reset token issued to the user before.
C23_PasswordChangeClearsReset == [][\A p \in Procs : C23_Cleared(p)]_vars

C25_Fails(p) ==
    (req[p].pc = "fp_send" /\ Steps(p)) =>
        \/ req'[p].pc = "done" /\ req'[p].status = 200
        \/ req'[p].pc = "fp_clear" /\ req'[p].user = req[p].user

C25_Clears(p) ==
    (req[p].pc = "fp_clear" /\ Steps(p)) =>
        LET u == req[p].user
        IN /\ req'[p].pc = "done" /\ req'[p].status = 500
           /\ users'[u].passwordResetToken = Unset
           /\ users'[u].passwordResetExpires = Unset
           /\ \A t \in KnownTokens : u \notin ResetTokenHolders(users', t)

\* The last request was a forgotPassword that failed to send its email.
FailedForgot(p) ==
    req[p].op = "forgotPassword" /\ req[p].pc = "done" /\ req[p].status = 500

C25_NoTokenLeft ==
    \A p \in Procs : FailedForgot(p) =>
        \A t \in KnownTokens : req[p].user \notin ResetTokenHolders(users, t)

\* C25: when forgotPassword has stored a reset token and sending the email
\* fails, the handler clears passwordResetToken and passwordResetExpires and
\* answers 500, and after it resetPassword accepts no token for that user.
C25_FailedEmailClearsReset ==
    []C25_NoTokenLeft /\ [][\A p \in Procs : C25_Fails(p) /\ C25_Clears(p)]_vars

\* A user who had a reset token stored by an earlier forgotPassword, after a
\* forgotPassword whose email failed.
C25_Witness ==
    \E p \in Procs :
        /\ FailedForgot(p)
        /\ nextToken > 2
        /\ users[req[p].user].passwordResetToken = Unset

\* C26: a response sets the token cookie only for a user whose
\* isEmailVerified flag is true.
C26_CookieOnlyForVerified ==
    [][\A u \in cookies' \ cookies : users'[u].isEmailVerified]_vars

ServiceOps == {"addService", "updateService", "deleteService"}

C30_Roles ==
    /\ \A u \in SignedUp : users[u].role = "costumer" /\ ~restrictTo(ProviderRoles, u)
    /\ \A p \in Procs :
          (req[p].op \in ServiceOps /\ req[p].user \in SignedUp) =>
              req[p].pc = "done" /\ req[p].status = 403
    /\ \A s \in DOMAIN services : services[s].providerID \notin SignedUp

C30_Steps ==
    /\ \A u \in DOMAIN users : users'[u].role = users[u].role
    /\ services' # services =>
          \E p \in Procs : Steps(p) /\ req[p].op \in ServiceOps /\ req[p].user \notin SignedUp

\* C30: every user made by signup has role "costumer" whatever the body
\* carries, no handler changes a user's role, and so such a user never
\* passes restrictTo("service_provider", "admin", "moderator") and never
\* creates, updates or deletes a Service.
C30_SignedUpStayCostumers == []C30_Roles /\ [][C30_Steps]_vars

\* A signed-up user who holds a token cookie was refused a Service request.
C30_Witness ==
    \E p \in Procs :
        /\ req[p].op \in ServiceOps
        /\ req[p].user \in SignedUp
        /\ req[p].user \in cookies
        /\ req[p].status = 403

====
